---- MODULE Spec2Model ----
(***************************************************************************)
(* A model of the inference gateway's request pipeline: the middleware     *)
(* chain assembled by create_app (app/main.py), the three middleware       *)
(* classes of app/security.py, the router of app/routing.py, the           *)
(* forwarder of app/forwarder.py and the four endpoint handlers of         *)
(* app/main.py.                                                             *)
(*                                                                         *)
(* Strings the code slices or parses (the Authorization header, the        *)
(* Content-Length header, base URLs) are sequences of one-character        *)
(* strings; JSON documents are tagged records (see the JSON section).      *)
(* An optional value (Python's None-or-value) is a sequence of length 0    *)
(* or 1.                                                                   *)
(***************************************************************************)
EXTENDS Integers, Sequences, FiniteSets, TLC

\* ------------------------------------------------------------------ bounds
\* Number of request slots (requests the model follows through the pipeline).
MaxRequests == 2
\* Longest uploaded file, in bytes.
MaxFileLen == 2
\* Largest number of bytes a multipart body adds around the file part.
MaxOverhead == 2

Reqs == 1..MaxRequests

\* ------------------------------------------------------- optional values
Nothing == <<>>
Some(x) == <<x>>
IsNothing(o) == Len(o) = 0
\* dict.get(key, default) / headers.get(name, default)
GetOr(o, default) == IF Len(o) = 0 THEN default ELSE o[1]

\* ----------------------------------------------------------------- strings
\* str.startswith(prefix)
StartsWith(s, prefix) ==
    /\ Len(s) >= Len(prefix)
    /\ SubSeq(s, 1, Len(prefix)) = prefix

\* s[n:]
SliceFrom(s, n) == SubSeq(s, n + 1, Len(s))

RECURSIVE rstrip(_, _)
\* str.rstrip(ch)
rstrip(s, ch) ==
    IF Len(s) > 0 /\ s[Len(s)] = ch THEN rstrip(SubSeq(s, 1, Len(s) - 1), ch) ELSE s

Digits == <<"0", "1", "2", "3", "4", "5", "6", "7", "8", "9">>

DigitValue(c) == (CHOOSE i \in 1..10 : Digits[i] = c) - 1

IsDigit(c) == \E i \in 1..10 : Digits[i] = c

RECURSIVE DecimalValue(_)
DecimalValue(s) ==
    IF Len(s) = 0 THEN 0
    ELSE 10 * DecimalValue(SubSeq(s, 1, Len(s) - 1)) + DigitValue(s[Len(s)])

\* int(s): the value, or ValueError for a string that is not a decimal numeral
int(s) ==
    IF Len(s) > 0 /\ \A i \in 1..Len(s) : IsDigit(s[i])
    THEN [ok |-> DecimalValue(s)]
    ELSE [exc |-> "ValueError"]

RECURSIVE str(_)
\* str(n) for a natural number n
str(n) == IF n < 10 THEN <<Digits[n + 1]>> ELSE str(n \div 10) \o <<Digits[(n % 10) + 1]>>

\* -------------------------------------------------------------------- JSON
\* A JSON value is a record with exactly one field naming its type:
\*   [null |-> TRUE]  [bool |-> b]  [num |-> n]  [str |-> s]
\*   [arr |-> <<v1, ..., vn>>]      [obj |-> [key |-> value, ...]]
\* (Python: None, bool, int, str, list, dict).
JNull == [null |-> TRUE]
JBool(b) == [bool |-> b]
JNum(n) == [num |-> n]
JStr(s) == [str |-> s]
JArr(a) == [arr |-> a]
JObj(f) == [obj |-> f]
EmptyDict == [k \in {} |-> JNull]

IsNull(v) == "null" \in DOMAIN v
IsStr(v) == "str" \in DOMAIN v
IsArr(v) == "arr" \in DOMAIN v
IsObj(v) == "obj" \in DOMAIN v

Ok(v) == [ok |-> v]
Exc(e) == [exc |-> e]
IsOk(x) == "ok" \in DOMAIN x

\* First character of the JSON strings that occur in the catalogues below.
FirstChar(s) ==
    CASE s = "hi" -> "h"
      [] s = "text" -> "t"
      [] s = "audio" -> "a"
      [] s = "input_audio" -> "i"
      [] s = "transcript" -> "t"
      [] s = "user" -> "u"
      [] OTHER -> s

\* v[key] for a string key, with Python's exceptions.
GetItem(v, key) ==
    IF IsObj(v)
    THEN IF key \in DOMAIN v.obj THEN Ok(v.obj[key]) ELSE Exc("KeyError")
    ELSE Exc("TypeError")

\* v[0], with Python's exceptions.
GetFirst(v) ==
    CASE IsObj(v) -> Exc("KeyError")
      [] IsArr(v) -> IF Len(v.arr) > 0 THEN Ok(v.arr[1]) ELSE Exc("IndexError")
      [] IsStr(v) -> IF v.str # "" THEN Ok(JStr(FirstChar(v.str))) ELSE Exc("IndexError")
      [] OTHER -> Exc("TypeError")

\* d.get(key) of a dict d: the value, or None when the key is absent.
DictGet(d, key) == IF key \in DOMAIN d.obj THEN d.obj[key] ELSE JNull

\* ----------------------------------------------------------- configuration
\* Base URLs ("" stands for an unset URL: validate_url turns it into None and
\* the code tests URLs by truthiness only).
NoURL == <<>>
TextURL == <<"T">>
AudioURL == <<"A">>
DefaultURL == <<"D", "/">>

ApiKey == <<"k">>
WrongKey == <<"w">>

\* Settings.validate_routing_dependencies asking, in mode audio_text, for
\* the text URL only.
validate_routing_dependencies_text_only(s) ==
    IF s.routing_mode = "audio_text"
    THEN s.text_base_url # NoURL
    ELSE s.default_base_url # NoURL \/ s.text_base_url # NoURL

\* Settings.validate_routing_dependencies: the check that construction of a
\* Settings object must pass.
validate_routing_dependencies(s) ==
    IF s.routing_mode = "audio_text"
    THEN s.text_base_url # NoURL /\ s.audio_base_url # NoURL
    ELSE s.default_base_url # NoURL \/ s.text_base_url # NoURL

\* Routing-related fields of the Settings objects the model starts from.
RoutingSettings ==
    { [routing_mode |-> "single", text_base_url |-> TextURL,
       audio_base_url |-> NoURL, default_base_url |-> NoURL],
      [routing_mode |-> "single", text_base_url |-> NoURL,
       audio_base_url |-> NoURL, default_base_url |-> DefaultURL],
      [routing_mode |-> "single", text_base_url |-> TextURL,
       audio_base_url |-> AudioURL, default_base_url |-> DefaultURL],
      [routing_mode |-> "audio_text", text_base_url |-> TextURL,
       audio_base_url |-> AudioURL, default_base_url |-> NoURL] }

\* The Settings objects the model starts from.  audio_max_upload_bytes is the
\* upload ceiling read by create_app and by the normalizer.
SettingsDomain ==
    { [ api_key |-> k,
        routing_mode |-> u.routing_mode,
        text_base_url |-> u.text_base_url,
        audio_base_url |-> u.audio_base_url,
        default_base_url |-> u.default_base_url,
        audio_max_upload_bytes |-> MaxFileLen - 1,
        audio_preprocess_enabled |-> p,
        transcribe_system_prompt |-> "Transcribe the following audio.",
        analyze_system_prompt_prefix |-> <<>> ] :
      k \in {Nothing, Some(ApiKey)}, u \in RoutingSettings, p \in BOOLEAN }

Settings == { s \in SettingsDomain : validate_routing_dependencies(s) }

\* Settings.effective_base_url with the two URLs of single mode swapped.
effective_base_url_text_first(s) ==
    IF s.routing_mode = "single"
    THEN IF s.text_base_url # NoURL THEN s.text_base_url ELSE s.default_base_url
    ELSE s.text_base_url

\* Settings.effective_base_url without the fallback to the text URL.
effective_base_url_default_only(s) ==
    IF s.routing_mode = "single" THEN s.default_base_url ELSE s.text_base_url

\* Settings.effective_base_url
effective_base_url(s) ==
    IF s.routing_mode = "single"
    THEN IF s.default_base_url # NoURL THEN s.default_base_url ELSE s.text_base_url
    ELSE s.text_base_url

\* ------------------------------------------------------------- application
\* Starlette's add_middleware inserts the new middleware at index 0 of
\* user_middleware, and the stack is built so that user_middleware[1] is the
\* outermost layer: the middleware added last wraps all those added before.
add_middleware(stack, cls) == <<cls>> \o stack

\* create_app: the middleware classes in the order of the add_middleware
\* calls, and the resulting stack (outermost layer first).
create_app ==
    add_middleware(
      add_middleware(
        add_middleware(
          add_middleware(<<>>, "RequestIDMiddleware"),
          "APIKeyMiddleware"),
        "MaxBodySizeMiddleware"),
      "CORSMiddleware")

user_middleware == create_app

\* The route table declared by the decorators of app/main.py.
Paths == {"/health", "/v1/chat/completions", "/v1/models", "/v1/transcribe", "/v1/analyze"}

RouteMethod(path) ==
    IF path \in {"/health", "/v1/models"} THEN "GET" ELSE "POST"

\* MaxBodySizeMiddleware._guarded_paths
guarded_paths == {"/v1/transcribe", "/v1/analyze"}

\* ----------------------------------------------------------------- headers
\* A header list is a sequence of <<name, value>> pairs, a value being the
\* sequence of the members of a comma-separated list (<<"a", "b">> stands
\* for "a, b").
\* str.lower() of the header names that occur.
Lower(name) ==
    CASE name = "Content-Type" -> "content-type"
      [] name = "Content-Length" -> "content-length"
      [] name = "CONTENT-LENGTH" -> "content-length"
      [] name = "Content-Encoding" -> "content-encoding"
      [] name = "Transfer-Encoding" -> "transfer-encoding"
      [] name = "X-Request-ID" -> "x-request-id"
      [] name = "X-Upstream" -> "x-upstream"
      [] name = "Set-Cookie" -> "set-cookie"
      [] OTHER -> name

\* The names of a header list.
Keys(headers) == { headers[i][1] : i \in 1..Len(headers) }

\* The value of the first header of that name.
HeaderValue(headers, name) ==
    headers[CHOOSE i \in 1..Len(headers) :
                /\ headers[i][1] = name
                /\ \A j \in 1..(i - 1) : headers[j][1] # name][2]

RECURSIVE httpx_items(_)
\* httpx.Headers.items(): the names in lower case, the values of a name that
\* occurs several times joined by ", ".
httpx_items(headers) ==
    IF Len(headers) = 0 THEN <<>>
    ELSE LET front == httpx_items(SubSeq(headers, 1, Len(headers) - 1))
             key == Lower(headers[Len(headers)][1])
             value == headers[Len(headers)][2]
         IN  IF key \in Keys(front)
             THEN [i \in 1..Len(front) |->
                     IF front[i][1] = key THEN <<key, front[i][2] \o value>> ELSE front[i]]
             ELSE Append(front, <<key, value>>)

\* httpx.Headers.get(name, default)
httpx_get(headers, name, default) ==
    IF name \in Keys(httpx_items(headers)) THEN HeaderValue(httpx_items(headers), name)
    ELSE default

\* The value Starlette computes for the Content-Length header: the length of
\* the body of the response it is set on.
BodyLength == <<"len(body)">>

\* starlette.responses.Response.init_headers: the headers passed in, their
\* names in lower case; a Content-Length header unless one was passed in; a
\* Content-Type header made from media_type unless one was passed in (with
\* the charset appended to a text type).
init_headers(media_type, headers) ==
    LET raw_headers == [i \in 1..Len(headers) |-> <<Lower(headers[i][1]), headers[i][2]>>]
        keys == Keys(raw_headers)
        with_length == IF "content-length" \in keys THEN raw_headers
                       ELSE Append(raw_headers, <<"content-length", BodyLength>>)
        content_type == IF media_type = <<"text/plain">> THEN <<"text/plain; charset=utf-8">>
                        ELSE media_type
    IN  IF "content-type" \in keys THEN with_length
        ELSE Append(with_length, <<"content-type", content_type>>)

\* del headers[name] (starlette.datastructures.MutableHeaders)
DelHeader(headers, name) == SelectSeq(headers, LAMBDA h : Lower(h[1]) # name)

\* --------------------------------------------------------------- responses
\* JSONResponse(status_code, content): content is the body.
JSONResponse(status, content, layer) ==
    [status |-> status, body |-> content, by |-> layer, request_id |-> Nothing,
     headers |-> init_headers(<<"application/json">>, <<>>)]

\* raise HTTPException(status_code, detail): FastAPI's handler for
\* HTTPException answers with the body {"detail": detail}.
HTTPException(status, detail, handler) ==
    [status |-> status, body |-> JObj([detail |-> detail]), by |-> handler,
     request_id |-> Nothing, headers |-> init_headers(<<"application/json">>, <<>>)]

\* {"error": {"type": t, "message": m}}
ErrorDict(t, m) == JObj([error |-> JObj([type |-> JStr(t), message |-> JStr(m)])])

\* ErrorResponse(error=ErrorDetail(type, message), upstream=u).model_dump()
ErrorResponse_model_dump(t, m, u) ==
    JObj([error |-> JObj([type |-> JStr(t), message |-> JStr(m)]), upstream |-> JStr(u)])

NoResponse ==
    [status |-> 0, body |-> JNull, by |-> "none", request_id |-> Nothing, headers |-> <<>>]

\* The answer of Starlette's ServerErrorMiddleware to an exception that no
\* layer handled: 500 with a plain-text body.
ServerErrorResponse ==
    [status |-> 500, body |-> [raw |-> "Internal Server Error"],
     by |-> "ServerErrorMiddleware", request_id |-> Nothing,
     headers |-> init_headers(<<"text/plain">>, <<>>)]

\* ---------------------------------------------------------------- requests
Bearer == <<"B", "e", "a", "r", "e", "r", " ">>

\* Values of the Authorization header (Nothing: the header is absent).
AuthorizationHeaders ==
    { Nothing,
      Some(<<"B", "a", "s", "i", "c", " ">> \o ApiKey),
      Some(<<"b", "e", "a", "r", "e", "r", " ">> \o ApiKey),
      Some(Bearer \o ApiKey),
      Some(Bearer \o WrongKey),
      Some(Bearer \o ApiKey \o <<"x">>) }

Byte == {"a", "b"}

\* The uploaded files: every byte string of at most MaxFileLen bytes.
Files == UNION { [1..n -> Byte] : n \in 0..MaxFileLen }

\* Values of the Content-Length header of a request that uploads file f: the
\* header is absent (chunked upload), not a numeral, or the length of the
\* multipart body, which is longer than the file it carries.
ContentLengths(f) ==
    { Nothing, Some(<<"x">>) } \cup { Some(str(Len(f) + o)) : o \in 1..MaxOverhead }

\* Values of the instruction form field of /v1/analyze (a string the code
\* concatenates: a sequence of characters).
Instructions == { <<"S">> }

\* The requests that arrive: a method and a path of the route table, an
\* Authorization header, a Content-Length header and, on the upload paths,
\* a file and, for /v1/analyze, an instruction.  body is the index in
\* ChatBodies of the request body, once the handler has read it.
Requests ==
    { [method |-> m, path |-> p, authorization |-> a, content_length |-> c, file |-> f,
       instruction |-> i, body |-> 0] :
        m \in {"GET", "POST"}, p \in Paths, a \in AuthorizationHeaders,
        c \in UNION { ContentLengths(g) : g \in Files }, f \in Files, i \in Instructions }

IsRequest(q) ==
    /\ q.content_length \in ContentLengths(q.file)
    /\ (q.path \notin guarded_paths => q.file = <<>>)

NoRequest ==
    [method |-> "", path |-> "", authorization |-> Nothing, content_length |-> Nothing,
     file |-> <<>>, instruction |-> <<>>, body |-> 0]

\* -------------------------------------------------------------- middleware
CallNext == [call_next |-> TRUE]
Respond(response) == [response |-> response]
IsCallNext(x) == "call_next" \in DOMAIN x

\* APIKeyMiddleware.dispatch with the key compared by prefix
\* (provided_key.startswith(api_key)) instead of by equality.
APIKeyMiddleware_dispatch_prefix(api_key, q) ==
    IF IsNothing(api_key) THEN CallNext
    ELSE IF q.path = "/health" THEN CallNext
    ELSE LET auth_header == GetOr(q.authorization, <<>>)
             provided_key == SliceFrom(auth_header, Len(Bearer))
         IN  IF ~StartsWith(auth_header, Bearer)
             THEN Respond(JSONResponse(401,
                     ErrorDict("auth_required", "Missing or malformed Authorization header"),
                     "APIKeyMiddleware"))
             ELSE IF ~StartsWith(provided_key, api_key[1])
             THEN Respond(JSONResponse(401, ErrorDict("auth_failed", "Invalid API key"),
                     "APIKeyMiddleware"))
             ELSE CallNext

\* APIKeyMiddleware.dispatch: call_next, or the 401 it answers itself.
APIKeyMiddleware_dispatch(api_key, q) ==
    IF IsNothing(api_key) THEN CallNext
    ELSE IF q.path = "/health" THEN CallNext
    ELSE LET auth_header == GetOr(q.authorization, <<>>)
             provided_key == SliceFrom(auth_header, Len(Bearer))
         IN  IF ~StartsWith(auth_header, Bearer)
             THEN Respond(JSONResponse(401,
                     ErrorDict("auth_required", "Missing or malformed Authorization header"),
                     "APIKeyMiddleware"))
             ELSE IF provided_key # api_key[1]
             THEN Respond(JSONResponse(401, ErrorDict("auth_failed", "Invalid API key"),
                     "APIKeyMiddleware"))
             ELSE CallNext

\* MaxBodySizeMiddleware.dispatch rejecting a Content-Length equal to the
\* ceiling.
MaxBodySizeMiddleware_dispatch_at_least(max_bytes, q) ==
    IF q.method = "POST" /\ q.path \in guarded_paths /\ ~IsNothing(q.content_length)
    THEN LET n == int(q.content_length[1])
         IN  IF IsOk(n) /\ n.ok >= max_bytes
             THEN Respond(JSONResponse(413,
                     ErrorDict("request_too_large", "Request body exceeds maximum allowed size"),
                     "MaxBodySizeMiddleware"))
             ELSE CallNext
    ELSE CallNext

\* MaxBodySizeMiddleware.dispatch with /v1/transcribe missing from the
\* guarded paths.
MaxBodySizeMiddleware_dispatch_analyze_only(max_bytes, q) ==
    IF q.method = "POST" /\ q.path = "/v1/analyze" /\ ~IsNothing(q.content_length)
    THEN LET n == int(q.content_length[1])
         IN  IF IsOk(n) /\ n.ok > max_bytes
             THEN Respond(JSONResponse(413,
                     ErrorDict("request_too_large", "Request body exceeds maximum allowed size"),
                     "MaxBodySizeMiddleware"))
             ELSE CallNext
    ELSE CallNext

\* MaxBodySizeMiddleware.dispatch: call_next, or the 413 it answers itself.
MaxBodySizeMiddleware_dispatch(max_bytes, q) ==
    IF q.method = "POST" /\ q.path \in guarded_paths /\ ~IsNothing(q.content_length)
    THEN LET n == int(q.content_length[1])
         IN  IF IsOk(n) /\ n.ok > max_bytes
             THEN Respond(JSONResponse(413,
                     ErrorDict("request_too_large", "Request body exceeds maximum allowed size"),
                     "MaxBodySizeMiddleware"))
             ELSE CallNext
    ELSE CallNext

\* ------------------------------------------------------------------ router
RECURSIVE SetToSeq(_)
SetToSeq(S) == IF S = {} THEN <<>> ELSE LET x == CHOOSE x \in S : TRUE IN <<x>> \o SetToSeq(S \ {x})

\* The values a Python for loop draws from v, or TypeError when v is not
\* iterable.  A dict yields its keys; a string yields its characters, of
\* which the model keeps the first (every loop over a string in this code
\* raises on its first element).
Iterate(v) ==
    CASE IsArr(v) -> Ok(v.arr)
      [] IsObj(v) -> Ok([i \in 1..Cardinality(DOMAIN v.obj) |-> JStr(SetToSeq(DOMAIN v.obj)[i])])
      [] IsStr(v) -> Ok(IF v.str = "" THEN <<>> ELSE <<JStr(FirstChar(v.str))>>)
      [] OTHER -> Exc("TypeError")

\* The inner loop of has_audio_content testing for the type "input_audio"
\* only.
HasAudioPart_input_audio_only(content) ==
    \E i \in 1..Len(content.arr) :
        LET part == content.arr[i]
        IN  /\ IsObj(part)
            /\ IsStr(DictGet(part, "type"))
            /\ DictGet(part, "type").str = "input_audio"

\* The inner loop of has_audio_content: some part of the content list is a
\* dict whose "type" is "input_audio" or "audio".
HasAudioPart(content) ==
    \E i \in 1..Len(content.arr) :
        LET part == content.arr[i]
        IN  /\ IsObj(part)
            /\ IsStr(DictGet(part, "type"))
            /\ DictGet(part, "type").str \in {"input_audio", "audio"}

RECURSIVE ScanMessages(_)
\* The outer loop of has_audio_content over the messages not yet visited.
ScanMessages(msgs) ==
    IF Len(msgs) = 0 THEN Ok(FALSE)
    ELSE LET msg == Head(msgs)
         IN  IF ~IsObj(msg) THEN Exc("AttributeError")
             ELSE LET content == DictGet(msg, "content")
                  IN  IF IsArr(content) /\ HasAudioPart(content) THEN Ok(TRUE)
                      ELSE ScanMessages(Tail(msgs))

\* app.routing.has_audio_content
has_audio_content(messages) ==
    LET it == Iterate(messages)
    IN  IF IsOk(it) THEN ScanMessages(it.ok) ELSE it

\* select_upstream_url without its checks that the URL is set.
select_upstream_url_unchecked(request_body, s) ==
    IF s.routing_mode = "single" THEN Ok(effective_base_url(s))
    ELSE LET messages == IF "messages" \in DOMAIN request_body.obj
                         THEN request_body.obj["messages"] ELSE JArr(<<>>)
             audio == has_audio_content(messages)
         IN  IF ~IsOk(audio) THEN audio
             ELSE IF audio.ok THEN Ok(s.audio_base_url) ELSE Ok(s.text_base_url)

\* select_upstream_url with the two branches of mode audio_text swapped.
select_upstream_url_swapped(request_body, s) ==
    IF s.routing_mode = "single"
    THEN IF effective_base_url(s) = NoURL THEN Exc("ValueError") ELSE Ok(effective_base_url(s))
    ELSE IF s.routing_mode = "audio_text"
    THEN LET messages == IF "messages" \in DOMAIN request_body.obj
                         THEN request_body.obj["messages"] ELSE JArr(<<>>)
             audio == has_audio_content(messages)
         IN  IF ~IsOk(audio) THEN audio
             ELSE IF ~audio.ok
             THEN IF s.audio_base_url = NoURL THEN Exc("ValueError") ELSE Ok(s.audio_base_url)
             ELSE IF s.text_base_url = NoURL THEN Exc("ValueError") ELSE Ok(s.text_base_url)
    ELSE Exc("ValueError")

\* app.routing.select_upstream_url: the base URL, ValueError (its
\* configuration error), or the exception has_audio_content raised.
select_upstream_url(request_body, s) ==
    IF s.routing_mode = "single"
    THEN IF effective_base_url(s) = NoURL THEN Exc("ValueError") ELSE Ok(effective_base_url(s))
    ELSE IF s.routing_mode = "audio_text"
    THEN LET messages == IF "messages" \in DOMAIN request_body.obj
                         THEN request_body.obj["messages"] ELSE JArr(<<>>)
             audio == has_audio_content(messages)
         IN  IF ~IsOk(audio) THEN audio
             ELSE IF audio.ok
             THEN IF s.audio_base_url = NoURL THEN Exc("ValueError") ELSE Ok(s.audio_base_url)
             ELSE IF s.text_base_url = NoURL THEN Exc("ValueError") ELSE Ok(s.text_base_url)
    ELSE Exc("ValueError")

\* --------------------------------------------------------------- forwarder
Msg(content) == JObj([role |-> JStr("user"), content |-> content])
Choices(c) == JObj([choices |-> c])

\* Bodies an upstream can answer with: bytes that are not JSON, or a JSON
\* document.
UpstreamBodies ==
    << [raw |-> "plain text response"],
       Choices(JArr(<<JObj([message |-> JObj([role |-> JStr("assistant"),
                                               content |-> JStr("transcript")])])>>)),
       JObj([unexpected |-> JStr("shape")]),
       Choices(JArr(<<>>)),
       Choices(JArr(<<JObj([message |-> JObj([content |-> JNull])])>>)),
       Choices(JArr(<<JObj([message |-> JObj([content |-> JNum(42)])])>>)),
       Choices(JArr(<<JObj([message |-> JObj([role |-> JStr("assistant")])])>>)),
       Choices(JArr(<<JObj([finish |-> JStr("stop")])>>)),
       Choices(JStr("text")),
       Choices(JObj([message |-> JStr("text")])),
       Choices(JArr(<<JObj([message |-> JStr("text")])>>)),
       Choices(JArr(<<JNull>>)),
       JArr(<<JStr("text")>>),
       JNull >>

UpstreamStatuses == {200, 404, 503}

\* The headers an upstream sends with a response, as they are on the wire:
\* names in any case, a name possibly more than once, a Content-Type or none,
\* the hop-by-hop headers, a request ID of its own.
UpstreamHeaders(status) ==
    CASE status = 200 ->
            << <<"Content-Type", <<"application/json">>>>,
               <<"Content-Length", <<"19">>>>,
               <<"X-Upstream", <<"u">>>> >>
      [] status = 404 ->
            << <<"content-type", <<"text/plain">>>>,
               <<"Transfer-Encoding", <<"chunked">>>>,
               <<"Content-Encoding", <<"gzip">>>>,
               <<"X-Request-ID", <<"upstream-id">>>> >>
      [] OTHER ->
            << <<"Set-Cookie", <<"a=1">>>>,
               <<"CONTENT-LENGTH", <<"19">>>>,
               <<"Set-Cookie", <<"b=2">>>> >>

\* What the HTTP client call of the forwarder can end in: a response, a
\* connection failure (httpx.ConnectError, httpx.NetworkError), a timeout
\* (httpx.TimeoutException) or any other exception.
TransportOutcomes ==
    { [kind |-> "response", status |-> st, body |-> i] :
        st \in UpstreamStatuses, i \in 1..Len(UpstreamBodies) }
    \cup { [kind |-> k, status |-> 0, body |-> 0] :
             k \in {"connect_error", "timeout", "other_error"} }

\* str.rstrip('/') + path: the URL the forwarder calls.
url(base_url, path) == rstrip(base_url, "/") \o <<path>>

\* The forwarder with httpx.TimeoutException listed in the first except
\* clause: a timeout is reported as UpstreamUnreachableError.
forward_timeout_as_unreachable(base_url, outcome) ==
    CASE outcome.kind = "response" ->
            Ok([status_code |-> outcome.status, content |-> UpstreamBodies[outcome.body],
                headers |-> UpstreamHeaders(outcome.status)])
      [] outcome.kind \in {"connect_error", "timeout"} ->
            [exc |-> "UpstreamUnreachableError", upstream |-> base_url]
      [] OTHER -> [exc |-> "Exception", upstream |-> NoURL]

\* forward_chat_completion / forward_models, given how the HTTP call ended:
\* the response, or the exception the forwarder raises.
forward(base_url, outcome) ==
    CASE outcome.kind = "response" ->
            Ok([status_code |-> outcome.status, content |-> UpstreamBodies[outcome.body],
                headers |-> UpstreamHeaders(outcome.status)])
      [] outcome.kind = "connect_error" ->
            [exc |-> "UpstreamUnreachableError", upstream |-> base_url]
      [] outcome.kind = "timeout" ->
            [exc |-> "UpstreamTimeoutError", upstream |-> base_url]
      [] OTHER -> [exc |-> "Exception", upstream |-> NoURL]

\* The forwarder retrying a call that failed.
outbound_calls_retry(base_url, path, outcome) ==
    IF outcome.kind = "response" THEN <<url(base_url, path)>>
    ELSE <<url(base_url, path), url(base_url, path)>>

\* The HTTP calls forward_chat_completion / forward_models make, given how
\* the call ended: the one client.post / client.get, whatever its outcome.
outbound_calls(base_url, path, outcome) == <<url(base_url, path)>>

\* ---------------------------------------------------------------- handlers
\* Bytes that are not valid UTF-8.
NotUTF8 == "\\xff"

\* Request bodies of POST /v1/chat/completions: bytes that are not JSON, or
\* the serialisation of a JSON document.
AudioPart(t) == JObj([type |-> JStr(t)])

ChatBodies ==
    << [raw |-> "not json"],
       JArr(<<JStr("text")>>),
       JStr("text"),
       JNum(42),
       JBool(TRUE),
       JNull,
       JObj([model |-> JStr("m")]),
       JObj([messages |-> JArr(<<>>)]),
       JObj([messages |-> JArr(<<Msg(JStr("hi"))>>)]),
       JObj([messages |-> JArr(<<Msg(JStr("hi")), Msg(JArr(<<AudioPart("input_audio")>>))>>)]),
       JObj([messages |-> JArr(<<Msg(JArr(<<AudioPart("text"), AudioPart("audio")>>))>>)]),
       JObj([messages |-> JArr(<<Msg(JArr(<<AudioPart("text"), JStr("audio")>>))>>)]),
       JObj([messages |-> JArr(<<Msg(JArr(<<JArr(<<AudioPart("audio")>>)>>))>>)]),
       JObj([messages |-> JNull]),
       JObj([messages |-> JStr("audio")]),
       JObj([messages |-> JArr(<<JStr("audio")>>)]),
       JObj([messages |-> JArr(<<Msg(JArr(<<AudioPart("audio")>>)), JNull>>)]),
       [raw |-> NotUTF8] >>

\* json.loads(body) / Response.json(): the document; JSONDecodeError for text
\* that is not JSON; UnicodeDecodeError (a ValueError, not a JSONDecodeError)
\* for bytes that cannot be decoded.
json_loads(b) ==
    IF "raw" \in DOMAIN b
    THEN IF b.raw = NotUTF8 THEN Exc("UnicodeDecodeError") ELSE Exc("JSONDecodeError")
    ELSE Ok(b)

InternalError(handler) ==
    HTTPException(500, ErrorDict("internal_error", "An unexpected error occurred"), handler)

\* The except clauses around the forwarding call, shared by the four handlers.
ForwardingError(result, handler) ==
    CASE result.exc = "UpstreamUnreachableError" ->
            HTTPException(502,
                ErrorResponse_model_dump("upstream_unreachable", "Connection to upstream failed",
                                         result.upstream), handler)
      [] result.exc = "UpstreamTimeoutError" ->
            HTTPException(504,
                ErrorResponse_model_dump("upstream_timeout",
                                         "Inference backend did not respond in time",
                                         result.upstream), handler)

IsForwardingError(result) ==
    ~IsOk(result) /\ result.exc \in {"UpstreamUnreachableError", "UpstreamTimeoutError"}

\* The headers the relay leaves out.
HopByHop == {"content-length", "content-encoding", "transfer-encoding"}

\* The media type and the headers of the relayed response: application/json
\* when the upstream body parsed, else the upstream's Content-Type
\* (application/octet-stream when it sent none); the upstream's headers
\* without those of HopByHop.
RelayMediaType(upstream_response, response_body) ==
    IF IsOk(response_body) THEN <<"application/json">>
    ELSE httpx_get(upstream_response.headers, "content-type", <<"application/octet-stream">>)

RelayHeaders(upstream_response) ==
    SelectSeq(httpx_items(upstream_response.headers), LAMBDA h : Lower(h[1]) \notin HopByHop)

\* The relay with an upstream 5xx turned into a gateway 502.
Relay_error_on_5xx(upstream_response, handler) ==
    LET response_body == json_loads(upstream_response.content)
    IN  [status |-> IF upstream_response.status_code >= 500 THEN 502
                    ELSE upstream_response.status_code,
         body |-> IF IsOk(response_body) THEN response_body.ok ELSE upstream_response.content,
         by |-> handler, request_id |-> Nothing,
         headers |-> init_headers(RelayMediaType(upstream_response, response_body),
                                  RelayHeaders(upstream_response))]

\* The relay leaving out Content-Length only.
Relay_strips_length_only(upstream_response, handler) ==
    LET response_body == json_loads(upstream_response.content)
    IN  [status |-> upstream_response.status_code,
         body |-> IF IsOk(response_body) THEN response_body.ok ELSE upstream_response.content,
         by |-> handler, request_id |-> Nothing,
         headers |-> init_headers(RelayMediaType(upstream_response, response_body),
                        SelectSeq(httpx_items(upstream_response.headers),
                                  LAMBDA h : Lower(h[1]) # "content-length"))]

\* "Return upstream response transparently" in chat_completions and models:
\* Response(content, status_code, media_type, headers).
Relay(upstream_response, handler) ==
    LET response_body == json_loads(upstream_response.content)
    IN  [status |-> upstream_response.status_code,
         body |-> IF IsOk(response_body) THEN response_body.ok ELSE upstream_response.content,
         by |-> handler, request_id |-> Nothing,
         headers |-> init_headers(RelayMediaType(upstream_response, response_body),
                                  RelayHeaders(upstream_response))]

\* resp_json["choices"][0]["message"]["content"] in transcribe and analyze.
ExtractContent(upstream_response) ==
    LET resp_json == json_loads(upstream_response.content)
        choices == IF IsOk(resp_json) THEN GetItem(resp_json.ok, "choices") ELSE resp_json
        first == IF IsOk(choices) THEN GetFirst(choices.ok) ELSE choices
        message == IF IsOk(first) THEN GetItem(first.ok, "message") ELSE first
    IN  IF IsOk(message) THEN GetItem(message.ok, "content") ELSE message

\* TranscribeResponse(transcript=v) / AnalyzeResponse(result=v): the field is
\* declared str, so construction fails for any other value.
ResponseModel(field, v, handler) ==
    IF IsStr(v)
    THEN Ok([status |-> 200, body |-> JObj([f \in {field} |-> v]), by |-> handler,
             request_id |-> Nothing, headers |-> init_headers(<<"application/json">>, <<>>)])
    ELSE Exc("ValidationError")

\* -------------------------------------------------------------- normalizer
AudioPreprocessError(error_type) == [exc |-> "AudioPreprocessError", error_type |-> error_type]

\* normalize_audio_to_wav with the pass-through placed before the size check.
normalize_begin_passthrough_first(input_bytes, s) ==
    IF ~s.audio_preprocess_enabled THEN Ok(input_bytes)
    ELSE IF Len(input_bytes) > s.audio_max_upload_bytes
    THEN AudioPreprocessError("audio_too_large")
    ELSE [spawn |-> TRUE]

\* normalize_audio_to_wav without its pass-through: the transcoder is run
\* whether preprocessing is enabled or not.
normalize_begin_always_transcodes(input_bytes, s) ==
    IF Len(input_bytes) > s.audio_max_upload_bytes THEN AudioPreprocessError("audio_too_large")
    ELSE [spawn |-> TRUE]

\* normalize_audio_to_wav up to the transcoder run: the size check, the
\* pass-through when preprocessing is disabled, or the start of ffmpeg.
normalize_begin(input_bytes, s) ==
    IF Len(input_bytes) > s.audio_max_upload_bytes THEN AudioPreprocessError("audio_too_large")
    ELSE IF ~s.audio_preprocess_enabled THEN Ok(input_bytes)
    ELSE [spawn |-> TRUE]

\* Bytes ffmpeg can write to its output file.
WavOutputs == { <<"a">>, <<"b", "a">> }

\* How the ffmpeg run can end: subprocess.run times out, cannot start the
\* binary, or returns with an exit status, having written the output file or
\* not.
FfmpegOutcomes ==
    { [kind |-> "timeout", returncode |-> 0, output |-> Nothing],
      [kind |-> "cannot_start", returncode |-> 0, output |-> Nothing],
      [kind |-> "exit", returncode |-> 1, output |-> Nothing],
      [kind |-> "exit", returncode |-> 0, output |-> Nothing] }
    \cup { [kind |-> "exit", returncode |-> 0, output |-> Some(w)] : w \in WavOutputs }

\* normalize_audio_to_wav without its test of the exit status.
normalize_end_ignores_returncode(outcome) ==
    CASE outcome.kind = "timeout" -> AudioPreprocessError("audio_timeout")
      [] outcome.kind = "cannot_start" -> [exc |-> "FileNotFoundError", error_type |-> ""]
      [] IsNothing(outcome.output) -> [exc |-> "FileNotFoundError", error_type |-> ""]
      [] OTHER -> Ok(outcome.output[1])

\* normalize_audio_to_wav from the return of the transcoder run on.
normalize_end(outcome) ==
    CASE outcome.kind = "timeout" -> AudioPreprocessError("audio_timeout")
      [] outcome.kind = "cannot_start" -> [exc |-> "FileNotFoundError", error_type |-> ""]
      [] outcome.returncode # 0 -> AudioPreprocessError("invalid_audio")
      [] IsNothing(outcome.output) -> [exc |-> "FileNotFoundError", error_type |-> ""]
      [] OTHER -> Ok(outcome.output[1])

\* The finally block of normalize_audio_to_wav with the removal moved to the
\* end of the try block: the directory is removed only when the transcoder
\* run succeeded.
normalize_finally_on_success(temp_dir, outcome) ==
    IF outcome.kind = "exit" /\ outcome.returncode = 0 /\ ~IsNothing(outcome.output)
    THEN Nothing ELSE temp_dir

\* The finally block of normalize_audio_to_wav: shutil.rmtree(temp_dir),
\* however the transcoder run ended.
normalize_finally(temp_dir, outcome) == Nothing

\* base64.b64encode(audio_bytes).decode("ascii")
b64encode(audio_bytes) == [b64 |-> audio_bytes]

\* The chat-completion request of transcribe and analyze with the audio in a
\* part of type "audio_url".
AudioRequestBody_audio_url(system_prompt, audio_bytes) ==
    JObj([messages |-> JArr(<<
        JObj([role |-> JStr("system"), content |-> JStr(system_prompt)]),
        JObj([role |-> JStr("user"),
              content |-> JArr(<<
                  JObj([type |-> JStr("audio_url"),
                        input_audio |-> JObj([data |-> JStr(b64encode(audio_bytes)),
                                              format |-> JStr("wav")])])>>)])>>)])

\* The chat-completion request transcribe and analyze build.
AudioRequestBody(system_prompt, audio_bytes) ==
    JObj([messages |-> JArr(<<
        JObj([role |-> JStr("system"), content |-> JStr(system_prompt)]),
        JObj([role |-> JStr("user"),
              content |-> JArr(<<
                  JObj([type |-> JStr("input_audio"),
                        input_audio |-> JObj([data |-> JStr(b64encode(audio_bytes)),
                                              format |-> JStr("wav")])])>>)])>>)])

\* str.strip(): the string without its leading and trailing blanks.
RECURSIVE lstrip(_, _)
lstrip(s, ch) == IF Len(s) > 0 /\ s[1] = ch THEN lstrip(Tail(s), ch) ELSE s

strip(s) == lstrip(rstrip(s, " "), " ")

\* The system prompt of analyze with the instruction stripped of the blanks
\* around it.
AnalyzeSystemPrompt_stripped(s, instruction) ==
    IF s.analyze_system_prompt_prefix # <<>>
    THEN s.analyze_system_prompt_prefix \o <<"\n">> \o strip(instruction)
    ELSE strip(instruction)

\* The system prompt of analyze: the instruction, after the prefix and a
\* newline when a prefix is configured (a prefix is configured when the
\* string is not empty).
AnalyzeSystemPrompt(s, instruction) ==
    IF s.analyze_system_prompt_prefix # <<>>
    THEN s.analyze_system_prompt_prefix \o <<"\n">> \o instruction
    ELSE instruction

\* ------------------------------------------------------------------- state
VARIABLES
    config,          \* the GatewayConfig the library operations are called with
    settings,        \* the Settings object returned by get_settings()
    pc,              \* pc[r]: where request r is in the pipeline
    req,             \* req[r]: the request
    depth,           \* depth[r]: number of middleware layers request r is inside
    resp,            \* resp[r]: the response travelling outwards, once there is one
    raised,          \* raised[r]: the exception propagating outwards, if any
    rid,             \* rid[r]: the ID RequestIDMiddleware generated for r, if any
    request_id_var,  \* request_id_var[r]: the context variable as seen by r's task
    handler_called,  \* handler_called[r]: the endpoint function was invoked
    local,           \* local[r]: the handler's local variables
    calls,           \* calls[r]: the URLs of the outbound HTTP calls made for r
    scratch          \* scratch[r]: the files in r's temporary directory, if it exists

vars == <<config, settings, pc, req, depth, resp, raised, rid, request_id_var,
          handler_called, local, calls, scratch>>

\* Number of distinct request IDs generate_request_id can return.
MaxIds == 2

\* Values of uuid.uuid4().hex[:12].
HexIds == <<"0a1b2c3d4e5f", "6a7b8c9d0e1f", "a0b1c2d3e4f5", "f0e1d2c3b4a5">>
RequestIds == { HexIds[i] : i \in 1..MaxIds }

NoOutcome == [kind |-> "none", status |-> 0, body |-> 0]

\* No transcoder run was made.
NoFfmpeg == [kind |-> "none", returncode |-> 0, output |-> Nothing]

\* The handler's locals: the parsed or constructed request_body, the selected
\* base_url, how the forwarding call ended and, in the normalizer, how the
\* transcoder run ended.
NoLocal == [request_body |-> JNull, base_url |-> NoURL, upstream |-> NoOutcome,
            transcoder |-> NoFfmpeg]

\* The HTTP service builds no GatewayConfig.
NoConfig == [routing_mode |-> "none", text_base_url |-> NoURL, audio_base_url |-> NoURL]

Init ==
    /\ config = NoConfig
    /\ settings \in Settings
    /\ pc = [r \in Reqs |-> "idle"]
    /\ req = [r \in Reqs |-> NoRequest]
    /\ depth = [r \in Reqs |-> 0]
    /\ resp = [r \in Reqs |-> NoResponse]
    /\ raised = [r \in Reqs |-> Nothing]
    /\ rid = [r \in Reqs |-> Nothing]
    /\ request_id_var = [r \in Reqs |-> "-"]
    /\ handler_called = [r \in Reqs |-> FALSE]
    /\ local = [r \in Reqs |-> NoLocal]
    /\ calls = [r \in Reqs |-> <<>>]
    /\ scratch = [r \in Reqs |-> Nothing]

\* A request arrives on a free slot and enters the middleware stack.
Arrive(r) ==
    /\ pc[r] = "idle"
    /\ \E q \in Requests :
         /\ IsRequest(q)
         /\ req' = [req EXCEPT ![r] = q]
    /\ pc' = [pc EXCEPT ![r] = "middleware"]
    /\ UNCHANGED <<config, settings, depth, resp, raised, rid, request_id_var,
                   handler_called, local, calls, scratch>>

\* The layer request r is about to enter.
NextLayer(r) ==
    IF depth[r] < Len(user_middleware) THEN user_middleware[depth[r] + 1] ELSE "router"

\* A layer either passes the request inwards or answers it itself.
Apply(r, decision) ==
    IF IsCallNext(decision)
    THEN /\ depth' = [depth EXCEPT ![r] = @ + 1]
         /\ UNCHANGED <<pc, resp>>
    ELSE /\ pc' = [pc EXCEPT ![r] = "return"]
         /\ resp' = [resp EXCEPT ![r] = decision.response]
         /\ UNCHANGED depth

\* CORSMiddleware: a request that is not a CORS preflight is passed inwards.
CORSMiddleware(r) ==
    /\ pc[r] = "middleware" /\ NextLayer(r) = "CORSMiddleware"
    /\ Apply(r, CallNext)
    /\ UNCHANGED <<config, settings, req, raised, rid, request_id_var, handler_called, local, calls, scratch>>

MaxBodySizeMiddleware(r) ==
    /\ pc[r] = "middleware" /\ NextLayer(r) = "MaxBodySizeMiddleware"
    /\ Apply(r, MaxBodySizeMiddleware_dispatch(settings.audio_max_upload_bytes, req[r]))
    /\ UNCHANGED <<config, settings, req, raised, rid, request_id_var, handler_called, local, calls, scratch>>

APIKeyMiddleware(r) ==
    /\ pc[r] = "middleware" /\ NextLayer(r) = "APIKeyMiddleware"
    /\ Apply(r, APIKeyMiddleware_dispatch(settings.api_key, req[r]))
    /\ UNCHANGED <<config, settings, req, raised, rid, request_id_var, handler_called, local, calls, scratch>>

\* RequestIDMiddleware.dispatch keeping the ID in a module-level variable
\* that every task sees, in place of a context variable.
RequestIDMiddleware_module_variable(r) ==
    /\ pc[r] = "middleware" /\ NextLayer(r) = "RequestIDMiddleware"
    /\ \E id \in RequestIds :
         /\ rid' = [rid EXCEPT ![r] = Some(id)]
         /\ request_id_var' = [o \in Reqs |-> id]
    /\ Apply(r, CallNext)
    /\ UNCHANGED <<config, settings, req, raised, handler_called, local, calls, scratch>>

\* RequestIDMiddleware.dispatch up to call_next: generate the ID and set the
\* context variable.
RequestIDMiddleware(r) ==
    /\ pc[r] = "middleware" /\ NextLayer(r) = "RequestIDMiddleware"
    /\ \E id \in RequestIds :
         /\ rid' = [rid EXCEPT ![r] = Some(id)]
         /\ request_id_var' = [request_id_var EXCEPT ![r] = id]
    /\ Apply(r, CallNext)
    /\ UNCHANGED <<config, settings, req, raised, handler_called, local, calls, scratch>>

\* What a layer does when its call_next returns response.  Only
\* RequestIDMiddleware does anything: it sets the X-Request-ID header
\* (request_id; a header of that name the response already has is replaced).
LayerExit(cls, response, id) ==
    IF cls = "RequestIDMiddleware"
    THEN [response EXCEPT !.request_id = id, !.headers = DelHeader(@, "x-request-id")]
    ELSE response

RECURSIVE Unwind(_, _, _)
\* The response after it has travelled outwards through layers d, d-1, .., 1.
Unwind(response, d, id) ==
    IF d = 0 THEN response
    ELSE Unwind(LayerExit(user_middleware[d], response, id), d - 1, id)

\* Send with the reset of the context variable after the return statement's
\* work, outside any finally block: an exception skips it.
Send_reset_without_finally(r) ==
    /\ pc[r] = "return"
    /\ pc' = [pc EXCEPT ![r] = "done"]
    /\ resp' = [resp EXCEPT ![r] =
                  IF IsNothing(raised[r]) THEN Unwind(@, depth[r], rid[r])
                  ELSE ServerErrorResponse]
    /\ depth' = [depth EXCEPT ![r] = 0]
    /\ request_id_var' = [request_id_var EXCEPT ![r] =
                            IF IsNothing(raised[r]) THEN "-" ELSE @]
    /\ UNCHANGED <<config, settings, req, raised, rid, handler_called, local, calls, scratch>>

\* The response (or the exception) travels outwards through the layers the
\* request is inside of and leaves the application.  RequestIDMiddleware
\* resets the context variable in its finally block on either way out.  An
\* exception that no layer handled passes every layer and is answered by
\* ServerErrorMiddleware, outside every layer of create_app.
Send(r) ==
    /\ pc[r] = "return"
    /\ pc' = [pc EXCEPT ![r] = "done"]
    /\ resp' = [resp EXCEPT ![r] =
                  IF IsNothing(raised[r]) THEN Unwind(@, depth[r], rid[r])
                  ELSE ServerErrorResponse]
    /\ depth' = [depth EXCEPT ![r] = 0]
    /\ request_id_var' = [request_id_var EXCEPT ![r] = "-"]
    /\ UNCHANGED <<config, settings, req, raised, rid, handler_called, local, calls, scratch>>

\* The slot of an answered request is freed.
Close(r) ==
    /\ pc[r] = "done"
    /\ pc' = [pc EXCEPT ![r] = "idle"]
    /\ req' = [req EXCEPT ![r] = NoRequest]
    /\ resp' = [resp EXCEPT ![r] = NoResponse]
    /\ raised' = [raised EXCEPT ![r] = Nothing]
    /\ rid' = [rid EXCEPT ![r] = Nothing]
    /\ handler_called' = [handler_called EXCEPT ![r] = FALSE]
    /\ local' = [local EXCEPT ![r] = NoLocal]
    /\ calls' = [calls EXCEPT ![r] = <<>>]
    /\ UNCHANGED <<config, settings, depth, request_id_var, scratch>>

\* ------------------------------------------------------------ handler steps
\* The handler returning a response, all operations in flight sharing one
\* deadline: when the response reports a timeout, every request that awaits
\* its upstream is answered with it.
Answer_timeout_fails_all(r, response) ==
    LET hit == IF response.status = 504 THEN {r} \cup { o \in Reqs : pc[o] = "forward" }
               ELSE {r}
    IN  /\ pc' = [o \in Reqs |-> IF o \in hit THEN "return" ELSE pc[o]]
        /\ resp' = [o \in Reqs |-> IF o \in hit THEN response ELSE resp[o]]
        /\ UNCHANGED raised

\* The handler answers (returns a response or raises HTTPException).
Answer(r, response) ==
    /\ pc' = [pc EXCEPT ![r] = "return"]
    /\ resp' = [resp EXCEPT ![r] = response]
    /\ UNCHANGED raised

\* An exception leaves the handler.
Raise(r, e) ==
    /\ pc' = [pc EXCEPT ![r] = "return"]
    /\ raised' = [raised EXCEPT ![r] = Some(e)]
    /\ UNCHANGED resp

\* The handler calling the forwarder with the text upstream, whatever was
\* selected.
AwaitForward_text_upstream(r, request_body, base_url) ==
    /\ pc' = [pc EXCEPT ![r] = "forward"]
    /\ local' = [local EXCEPT ![r] = [@ EXCEPT !.request_body = request_body,
                                               !.base_url = settings.text_base_url]]
    /\ UNCHANGED <<resp, raised>>

\* The handler awaits the forwarding call.
AwaitForward(r, request_body, base_url) ==
    /\ pc' = [pc EXCEPT ![r] = "forward"]
    /\ local' = [local EXCEPT ![r] = [@ EXCEPT !.request_body = request_body,
                                               !.base_url = base_url]]
    /\ UNCHANGED <<resp, raised>>

\* The routing layer inside the middleware stack: the endpoint function of
\* the path is invoked when the method matches, 405 is answered otherwise.
Route(r) ==
    /\ pc[r] = "middleware" /\ NextLayer(r) = "router"
    /\ IF req[r].method = RouteMethod(req[r].path)
       THEN /\ pc' = [pc EXCEPT ![r] = "handler"]
            /\ handler_called' = [handler_called EXCEPT ![r] = TRUE]
            /\ UNCHANGED resp
       ELSE /\ pc' = [pc EXCEPT ![r] = "return"]
            /\ resp' = [resp EXCEPT ![r] =
                          [status |-> 405, body |-> JObj([detail |-> JStr("Method Not Allowed")]),
                           by |-> "router", request_id |-> Nothing,
                           headers |-> init_headers(<<"application/json">>,
                                          << <<"Allow", <<RouteMethod(req[r].path)>>>> >>)]]
            /\ UNCHANGED handler_called
    /\ UNCHANGED <<config, settings, req, depth, raised, rid, request_id_var, local, calls, scratch>>

health(r) ==
    /\ pc[r] = "handler" /\ req[r].path = "/health"
    /\ Answer(r, [status |-> 200,
                  body |-> JObj([ok |-> JBool(TRUE), version |-> JStr("0.1.0")]),
                  by |-> "health", request_id |-> Nothing,
                  headers |-> init_headers(<<"application/json">>, <<>>)])
    /\ UNCHANGED <<config, settings, req, depth, rid, request_id_var, handler_called, local, calls,
                   scratch>>

\* chat_completions up to the forwarding call: read and parse the body,
\* check that it is an object, select the upstream.
chat_completions(r) ==
    /\ pc[r] = "handler" /\ req[r].path = "/v1/chat/completions"
    /\ \E i \in 1..Len(ChatBodies) :
         LET request_body == json_loads(ChatBodies[i])
             base_url == select_upstream_url(request_body.ok, settings)
         IN  /\ req' = [req EXCEPT ![r].body = i]
             /\ IF ~IsOk(request_body)
                THEN /\ IF request_body.exc = "JSONDecodeError"
                        THEN Answer(r, HTTPException(400,
                                ErrorDict("invalid_json", "Invalid JSON in request body"),
                                "chat_completions"))
                        ELSE Answer(r, InternalError("chat_completions"))
                     /\ UNCHANGED local
                ELSE IF ~IsObj(request_body.ok)
                THEN /\ Answer(r, HTTPException(400,
                            ErrorDict("invalid_request", "Request body must be a JSON object"),
                            "chat_completions"))
                     /\ UNCHANGED local
                ELSE IF IsOk(base_url)
                THEN AwaitForward(r, request_body.ok, base_url.ok)
                ELSE IF base_url.exc = "ValueError"
                THEN /\ Answer(r, HTTPException(500,
                            ErrorDict("configuration_error", "No upstream URL configured"),
                            "chat_completions"))
                     /\ UNCHANGED local
                ELSE /\ Answer(r, InternalError("chat_completions"))
                     /\ UNCHANGED local
    /\ UNCHANGED <<config, settings, depth, rid, request_id_var, handler_called, calls, scratch>>

\* chat_completions from the return of the forwarding call on.
chat_completions_forwarded(r) ==
    /\ pc[r] = "forward" /\ req[r].path = "/v1/chat/completions"
    /\ \E outcome \in TransportOutcomes :
         LET result == forward(local[r].base_url, outcome)
         IN  /\ local' = [local EXCEPT ![r].upstream = outcome]
             /\ calls' = [calls EXCEPT ![r] =
                            @ \o outbound_calls(local[r].base_url, "/v1/chat/completions",
                                                outcome)]
             /\ IF IsOk(result) THEN Answer(r, Relay(result.ok, "chat_completions"))
                ELSE IF IsForwardingError(result)
                THEN Answer(r, ForwardingError(result, "chat_completions"))
                ELSE Answer(r, InternalError("chat_completions"))
    /\ UNCHANGED <<config, settings, req, depth, rid, request_id_var, handler_called, scratch>>

\* The upstream selection of models taking the audio upstream in mode
\* audio_text.
models_base_url_audio(s) ==
    IF s.routing_mode = "single"
    THEN IF effective_base_url(s) = NoURL THEN Exc("configuration_error")
         ELSE Ok(effective_base_url(s))
    ELSE IF s.routing_mode = "audio_text"
    THEN IF s.audio_base_url = NoURL THEN Exc("configuration_error") ELSE Ok(s.audio_base_url)
    ELSE Exc("configuration_error")

\* The upstream selection of models.
models_base_url(s) ==
    IF s.routing_mode = "single"
    THEN IF effective_base_url(s) = NoURL THEN Exc("configuration_error")
         ELSE Ok(effective_base_url(s))
    ELSE IF s.routing_mode = "audio_text"
    THEN IF s.text_base_url = NoURL THEN Exc("configuration_error") ELSE Ok(s.text_base_url)
    ELSE Exc("configuration_error")

\* models up to the forwarding call.
models(r) ==
    /\ pc[r] = "handler" /\ req[r].path = "/v1/models"
    /\ LET base_url == models_base_url(settings)
       IN  IF IsOk(base_url)
           THEN AwaitForward(r, JNull, base_url.ok)
           ELSE /\ Answer(r, HTTPException(500,
                       ErrorDict("configuration_error", "No upstream URL configured"), "models"))
                /\ UNCHANGED local
    /\ UNCHANGED <<config, settings, req, depth, rid, request_id_var, handler_called, calls, scratch>>

\* models from the return of the forwarding call on.  The handler has no
\* outer except clause: an exception that is neither of the two forwarding
\* errors leaves it.
models_forwarded(r) ==
    /\ pc[r] = "forward" /\ req[r].path = "/v1/models"
    /\ \E outcome \in TransportOutcomes :
         LET result == forward(local[r].base_url, outcome)
         IN  /\ local' = [local EXCEPT ![r].upstream = outcome]
             /\ calls' = [calls EXCEPT ![r] =
                            @ \o outbound_calls(local[r].base_url, "/v1/models", outcome)]
             /\ IF IsOk(result) THEN Answer(r, Relay(result.ok, "models"))
                ELSE IF IsForwardingError(result)
                THEN Answer(r, ForwardingError(result, "models"))
                ELSE Raise(r, result.exc)
    /\ UNCHANGED <<config, settings, req, depth, rid, request_id_var, handler_called, scratch>>

\* The path and the response field of the two audio handlers.
HandlerPath(handler) == IF handler = "transcribe" THEN "/v1/transcribe" ELSE "/v1/analyze"
ResultField(handler) == IF handler = "transcribe" THEN "transcript" ELSE "result"

SystemPrompt(handler, s, q) ==
    IF handler = "transcribe" THEN <<s.transcribe_system_prompt>>
    ELSE AnalyzeSystemPrompt(s, q.instruction)

\* except AudioPreprocessError in transcribe and analyze answering with one
\* fixed error type.
AudioError_fixed_type(e, handler) ==
    HTTPException(400, ErrorDict("invalid_audio", "audio preprocessing failed"), handler)

\* except AudioPreprocessError in transcribe and analyze.
AudioError(e, handler) ==
    HTTPException(400, ErrorDict(e.error_type, "audio preprocessing failed"), handler)

\* transcribe / analyze from the return of the normalizer to the forwarding
\* call: encode the audio, build the request, select the upstream.
AudioContinue(r, handler, audio_bytes, loc) ==
    LET request_body == AudioRequestBody(SystemPrompt(handler, settings, req[r]), audio_bytes)
        base_url == select_upstream_url(request_body, settings)
    IN  IF IsOk(base_url)
        THEN /\ pc' = [pc EXCEPT ![r] = "forward"]
             /\ local' = [local EXCEPT ![r] = [loc EXCEPT !.request_body = request_body,
                                                          !.base_url = base_url.ok]]
             /\ UNCHANGED <<resp, raised>>
        ELSE IF base_url.exc = "ValueError"
        THEN /\ Answer(r, HTTPException(500,
                    ErrorDict("configuration_error", "No upstream URL configured"), handler))
             /\ local' = [local EXCEPT ![r] = loc]
        ELSE /\ Answer(r, InternalError(handler))
             /\ local' = [local EXCEPT ![r] = loc]

\* transcribe / analyze up to the transcoder run (or, when the normalizer
\* returns without one, up to the forwarding call).
AudioStart(r, handler) ==
    /\ pc[r] = "handler" /\ req[r].path = HandlerPath(handler)
    /\ LET n == normalize_begin(req[r].file, settings)
       IN  IF "spawn" \in DOMAIN n
           THEN /\ pc' = [pc EXCEPT ![r] = "ffmpeg"]
                /\ scratch' = [scratch EXCEPT ![r] = Some({"input"})]
                /\ UNCHANGED <<resp, raised, local>>
           ELSE /\ IF IsOk(n) THEN AudioContinue(r, handler, n.ok, local[r])
                   ELSE /\ Answer(r, AudioError(n, handler))
                        /\ UNCHANGED local
                /\ UNCHANGED scratch
    /\ UNCHANGED <<config, settings, req, depth, rid, request_id_var, handler_called, calls>>

\* transcribe / analyze running the normalizer again when the transcoder
\* timed out.
AudioNormalized_retries_on_timeout(r, handler) ==
    /\ pc[r] = "ffmpeg" /\ req[r].path = HandlerPath(handler)
    /\ \E outcome \in FfmpegOutcomes :
         LET n == normalize_end(outcome)
             loc == [local[r] EXCEPT !.transcoder = outcome]
         IN  /\ IF IsOk(n) THEN AudioContinue(r, handler, n.ok, loc)
                ELSE IF n.exc = "AudioPreprocessError" /\ n.error_type = "audio_timeout"
                THEN /\ pc' = [pc EXCEPT ![r] = "handler"]
                     /\ local' = [local EXCEPT ![r] = loc]
                     /\ UNCHANGED <<resp, raised>>
                ELSE /\ IF n.exc = "AudioPreprocessError" THEN Answer(r, AudioError(n, handler))
                        ELSE Answer(r, InternalError(handler))
                     /\ local' = [local EXCEPT ![r] = loc]
             /\ scratch' = [scratch EXCEPT ![r] = normalize_finally(scratch[r], outcome)]
    /\ UNCHANGED <<config, settings, req, depth, rid, request_id_var, handler_called, calls>>

\* transcribe / analyze from the return of the transcoder run to the
\* forwarding call; the normalizer's finally block removes the directory.
AudioNormalized(r, handler) ==
    /\ pc[r] = "ffmpeg" /\ req[r].path = HandlerPath(handler)
    /\ \E outcome \in FfmpegOutcomes :
         LET n == normalize_end(outcome)
             loc == [local[r] EXCEPT !.transcoder = outcome]
         IN  /\ IF IsOk(n) THEN AudioContinue(r, handler, n.ok, loc)
                ELSE /\ IF n.exc = "AudioPreprocessError" THEN Answer(r, AudioError(n, handler))
                        ELSE Answer(r, InternalError(handler))
                     /\ local' = [local EXCEPT ![r] = loc]
             /\ scratch' = [scratch EXCEPT ![r] = normalize_finally(scratch[r], outcome)]
    /\ UNCHANGED <<config, settings, req, depth, rid, request_id_var, handler_called, calls>>

\* AudioForwarded with the upstream's status relayed when it is 400 or more.
AudioForwarded_relays_status(r, handler) ==
    /\ pc[r] = "forward" /\ req[r].path = HandlerPath(handler)
    /\ \E outcome \in TransportOutcomes :
         LET result == forward(local[r].base_url, outcome)
             content == ExtractContent(result.ok)
             model == ResponseModel(ResultField(handler), content.ok, handler)
         IN  /\ local' = [local EXCEPT ![r].upstream = outcome]
             /\ calls' = [calls EXCEPT ![r] =
                            @ \o outbound_calls(local[r].base_url, "/v1/chat/completions",
                                                outcome)]
             /\ IF IsForwardingError(result) THEN Answer(r, ForwardingError(result, handler))
                ELSE IF ~IsOk(result) THEN Answer(r, InternalError(handler))
                ELSE IF result.ok.status_code >= 400
                THEN Answer(r, Relay(result.ok, handler))
                ELSE IF ~IsOk(content)
                THEN Answer(r, HTTPException(502,
                        ErrorDict("upstream_invalid_response",
                                  "Upstream returned an unexpected response structure"), handler))
                ELSE IF IsOk(model) THEN Answer(r, model.ok)
                ELSE Answer(r, InternalError(handler))
    /\ UNCHANGED <<config, settings, req, depth, rid, request_id_var, handler_called, scratch>>

\* transcribe / analyze from the return of the forwarding call on.
AudioForwarded(r, handler) ==
    /\ pc[r] = "forward" /\ req[r].path = HandlerPath(handler)
    /\ \E outcome \in TransportOutcomes :
         LET result == forward(local[r].base_url, outcome)
             content == ExtractContent(result.ok)
             model == ResponseModel(ResultField(handler), content.ok, handler)
         IN  /\ local' = [local EXCEPT ![r].upstream = outcome]
             /\ calls' = [calls EXCEPT ![r] =
                            @ \o outbound_calls(local[r].base_url, "/v1/chat/completions",
                                                outcome)]
             /\ IF IsForwardingError(result) THEN Answer(r, ForwardingError(result, handler))
                ELSE IF ~IsOk(result) THEN Answer(r, InternalError(handler))
                ELSE IF ~IsOk(content)
                THEN Answer(r, HTTPException(502,
                        ErrorDict("upstream_invalid_response",
                                  "Upstream returned an unexpected response structure"), handler))
                ELSE IF IsOk(model) THEN Answer(r, model.ok)
                ELSE Answer(r, InternalError(handler))
    /\ UNCHANGED <<config, settings, req, depth, rid, request_id_var, handler_called, scratch>>

transcribe(r) == AudioStart(r, "transcribe")
transcribe_normalized(r) == AudioNormalized(r, "transcribe")
transcribe_forwarded(r) == AudioForwarded(r, "transcribe")

analyze(r) == AudioStart(r, "analyze")
analyze_normalized(r) == AudioNormalized(r, "analyze")
analyze_forwarded(r) == AudioForwarded(r, "analyze")

\* ------------------------------------------------------------ specification
\* Spec follows one request at a time through the pipeline: a request is
\* admitted when no other is in flight.  Which slot it takes makes no
\* difference then, so it takes the first.
Admit(r) ==
    /\ r = 1
    /\ \A o \in Reqs \ {r} : pc[o] = "idle"
    /\ Arrive(r)

Next ==
    \E r \in Reqs :
        \/ Admit(r)
        \/ CORSMiddleware(r)
        \/ MaxBodySizeMiddleware(r)
        \/ APIKeyMiddleware(r)
        \/ RequestIDMiddleware(r)
        \/ Route(r)
        \/ health(r)
        \/ chat_completions(r)
        \/ chat_completions_forwarded(r)
        \/ models(r)
        \/ models_forwarded(r)
        \/ transcribe(r)
        \/ transcribe_normalized(r)
        \/ transcribe_forwarded(r)
        \/ analyze(r)
        \/ analyze_normalized(r)
        \/ analyze_forwarded(r)
        \/ Send(r)
        \/ Close(r)

Spec == Init /\ [][Next]_vars

\* Settings objects as the handlers and the router can be handed them when
\* get_settings is replaced (as the endpoint tests do) or a Settings object
\* is built or changed without its validators.  In mode single every
\* combination of the default and the text URL (the audio URL is set), in
\* mode audio_text every combination of the text and the audio URL (no
\* default URL), and a routing mode that is neither of the two, with all URLs
\* set.  No API key is configured.
AnyRoutingSettings ==
    { [routing_mode |-> "single", text_base_url |-> t,
       audio_base_url |-> AudioURL, default_base_url |-> d] :
        t \in {NoURL, TextURL}, d \in {NoURL, DefaultURL} }
    \cup { [routing_mode |-> "audio_text", text_base_url |-> t,
            audio_base_url |-> a, default_base_url |-> NoURL] :
             t \in {NoURL, TextURL}, a \in {NoURL, AudioURL} }
    \cup { [routing_mode |-> "round_robin", text_base_url |-> TextURL,
            audio_base_url |-> AudioURL, default_base_url |-> DefaultURL] }

AnySettings ==
    { [ api_key |-> Nothing,
        routing_mode |-> u.routing_mode,
        text_base_url |-> u.text_base_url,
        audio_base_url |-> u.audio_base_url,
        default_base_url |-> u.default_base_url,
        audio_max_upload_bytes |-> MaxFileLen - 1,
        audio_preprocess_enabled |-> p,
        transcribe_system_prompt |-> "Transcribe the following audio.",
        analyze_system_prompt_prefix |-> <<>> ] :
      u \in AnyRoutingSettings, p \in BOOLEAN }

InitAnySettings ==
    /\ config = NoConfig
    /\ settings \in AnySettings
    /\ pc = [r \in Reqs |-> "idle"]
    /\ req = [r \in Reqs |-> NoRequest]
    /\ depth = [r \in Reqs |-> 0]
    /\ resp = [r \in Reqs |-> NoResponse]
    /\ raised = [r \in Reqs |-> Nothing]
    /\ rid = [r \in Reqs |-> Nothing]
    /\ request_id_var = [r \in Reqs |-> "-"]
    /\ handler_called = [r \in Reqs |-> FALSE]
    /\ local = [r \in Reqs |-> NoLocal]
    /\ calls = [r \in Reqs |-> <<>>]
    /\ scratch = [r \in Reqs |-> Nothing]

\* The pipeline of Spec, started from any Settings object.
SpecAnySettings == InitAnySettings /\ [][Next]_vars

\* ----------------------------------------------------------------- analyze
\* Values of the configured prefix: none, or a string.
Prefixes == { <<>>, <<"P">> }

\* Instructions a caller of /v1/analyze can send: the empty string, and
\* strings with blanks and newlines around and inside them.
AnalyzeInstructions == { <<>>, <<"S">>, <<" ", "S", "\n", "s", " ">> }

\* The Settings objects of Spec, with and without a prefix.
AnalyzeSettings ==
    { [s EXCEPT !.analyze_system_prompt_prefix = p] : s \in Settings, p \in Prefixes }

\* The uploads to /v1/analyze.
AnalyzeRequests ==
    { [q EXCEPT !.instruction = i] :
        q \in { u \in Requests : IsRequest(u) /\ u.path = "/v1/analyze" /\ u.method = "POST" },
        i \in AnalyzeInstructions }

\* An upload to /v1/analyze arrives when no other request is in flight, and
\* takes the first slot.
AdmitAnalyze(r) ==
    /\ r = 1
    /\ \A o \in Reqs : pc[o] = "idle"
    /\ \E q \in AnalyzeRequests : req' = [req EXCEPT ![r] = q]
    /\ pc' = [pc EXCEPT ![r] = "middleware"]
    /\ UNCHANGED <<config, settings, depth, resp, raised, rid, request_id_var,
                   handler_called, local, calls, scratch>>

InitAnalyze ==
    /\ config = NoConfig
    /\ settings \in AnalyzeSettings
    /\ pc = [r \in Reqs |-> "idle"]
    /\ req = [r \in Reqs |-> NoRequest]
    /\ depth = [r \in Reqs |-> 0]
    /\ resp = [r \in Reqs |-> NoResponse]
    /\ raised = [r \in Reqs |-> Nothing]
    /\ rid = [r \in Reqs |-> Nothing]
    /\ request_id_var = [r \in Reqs |-> "-"]
    /\ handler_called = [r \in Reqs |-> FALSE]
    /\ local = [r \in Reqs |-> NoLocal]
    /\ calls = [r \in Reqs |-> <<>>]
    /\ scratch = [r \in Reqs |-> Nothing]

NextAnalyze ==
    \E r \in Reqs :
        \/ AdmitAnalyze(r)
        \/ CORSMiddleware(r)
        \/ MaxBodySizeMiddleware(r)
        \/ APIKeyMiddleware(r)
        \/ RequestIDMiddleware(r)
        \/ Route(r)
        \/ analyze(r)
        \/ analyze_normalized(r)
        \/ analyze_forwarded(r)
        \/ Send(r)
        \/ Close(r)

\* POST /v1/analyze through the pipeline, with every instruction of
\* AnalyzeInstructions and every prefix of Prefixes.
SpecAnalyze == InitAnalyze /\ [][NextAnalyze]_vars

\* -------------------------------------------------------------- concurrency
\* Requests in flight at the same time: each is handled as a task of its own
\* (the context variable is per task), and the steps of the tasks interleave
\* at every await.  The requests are chat completions and model listings
\* without credentials, sent to a gateway without API key; the bodies and
\* the upstream's behaviours are a few of those of Spec.
ConcurrentSettings ==
    { s \in Settings : /\ IsNothing(s.api_key) /\ s.routing_mode = "audio_text"
                       /\ ~s.audio_preprocess_enabled }

ConcurrentRequests ==
    { q \in Requests : /\ IsRequest(q)
                       /\ q.path \in {"/v1/chat/completions", "/v1/models"}
                       /\ q.method = RouteMethod(q.path)
                       /\ IsNothing(q.authorization) /\ IsNothing(q.content_length) }

ConcurrentBodies ==
    { i \in 1..Len(ChatBodies) :
        ChatBodies[i] \in { [raw |-> "not json"],
                            JObj([messages |-> JArr(<<Msg(JStr("hi"))>>)]) } }

ConcurrentOutcomes ==
    { o \in TransportOutcomes :
        \/ o.kind \in {"connect_error", "timeout", "other_error"}
        \/ o.kind = "response" /\ o.status \in {200, 503} /\ o.body = 2 }

\* A request arrives on a free slot, whatever the other slots are doing.
ConcurrentArrive(r) ==
    /\ pc[r] = "idle"
    /\ \E q \in ConcurrentRequests : req' = [req EXCEPT ![r] = q]
    /\ pc' = [pc EXCEPT ![r] = "middleware"]
    /\ UNCHANGED <<config, settings, depth, resp, raised, rid, request_id_var,
                   handler_called, local, calls, scratch>>

ConcurrentChat(r) ==
    /\ chat_completions(r)
    /\ req'[r].body \in ConcurrentBodies

ConcurrentChatForwarded(r) ==
    /\ chat_completions_forwarded(r)
    /\ local'[r].upstream \in ConcurrentOutcomes

ConcurrentModelsForwarded(r) ==
    /\ models_forwarded(r)
    /\ local'[r].upstream \in ConcurrentOutcomes

InitConcurrent ==
    /\ config = NoConfig
    /\ settings \in ConcurrentSettings
    /\ pc = [r \in Reqs |-> "idle"]
    /\ req = [r \in Reqs |-> NoRequest]
    /\ depth = [r \in Reqs |-> 0]
    /\ resp = [r \in Reqs |-> NoResponse]
    /\ raised = [r \in Reqs |-> Nothing]
    /\ rid = [r \in Reqs |-> Nothing]
    /\ request_id_var = [r \in Reqs |-> "-"]
    /\ handler_called = [r \in Reqs |-> FALSE]
    /\ local = [r \in Reqs |-> NoLocal]
    /\ calls = [r \in Reqs |-> <<>>]
    /\ scratch = [r \in Reqs |-> Nothing]

NextConcurrent ==
    \E r \in Reqs :
        \/ ConcurrentArrive(r)
        \/ CORSMiddleware(r)
        \/ MaxBodySizeMiddleware(r)
        \/ APIKeyMiddleware(r)
        \/ RequestIDMiddleware(r)
        \/ Route(r)
        \/ ConcurrentChat(r)
        \/ ConcurrentChatForwarded(r)
        \/ models(r)
        \/ ConcurrentModelsForwarded(r)
        \/ Send(r)

\* One request per slot, all slots in flight together; an answered request
\* stays in its slot.
SpecConcurrent == InitConcurrent /\ [][NextConcurrent]_vars

\* ---------------------------------------------------------------- timeouts
\* Requests in flight at the same time whose blocking operations time out or
\* succeed: a chat completion and the upload of a one-byte file for
\* transcription, sent to a gateway without API key that preprocesses audio.
TimeoutSettings ==
    { s \in Settings : /\ IsNothing(s.api_key) /\ s.routing_mode = "audio_text"
                       /\ s.audio_preprocess_enabled }

TimeoutRequests ==
    { q \in Requests : /\ IsRequest(q)
                       /\ q.path \in {"/v1/chat/completions", "/v1/transcribe"}
                       /\ q.method = "POST"
                       /\ q.path = "/v1/transcribe" => q.file = <<"a">>
                       /\ IsNothing(q.authorization) /\ IsNothing(q.content_length) }

TimeoutOutcomes ==
    { o \in ConcurrentOutcomes : o.kind = "timeout" \/ o.status = 200 }

TimeoutFfmpegOutcomes ==
    { o \in FfmpegOutcomes : o.kind = "timeout" \/ o.output = Some(<<"a">>) }

TimeoutArrive(r) ==
    /\ pc[r] = "idle"
    /\ \E q \in TimeoutRequests : req' = [req EXCEPT ![r] = q]
    /\ pc' = [pc EXCEPT ![r] = "middleware"]
    /\ UNCHANGED <<config, settings, depth, resp, raised, rid, request_id_var,
                   handler_called, local, calls, scratch>>

TimeoutChat(r) ==
    /\ chat_completions(r)
    /\ ChatBodies[req'[r].body] = JObj([messages |-> JArr(<<Msg(JStr("hi"))>>)])

TimeoutChatForwarded(r) ==
    /\ chat_completions_forwarded(r)
    /\ local'[r].upstream \in TimeoutOutcomes

TimeoutTranscribeNormalized(r) ==
    /\ transcribe_normalized(r)
    /\ local'[r].transcoder \in TimeoutFfmpegOutcomes

TimeoutTranscribeForwarded(r) ==
    /\ transcribe_forwarded(r)
    /\ local'[r].upstream \in TimeoutOutcomes

InitTimeouts ==
    /\ config = NoConfig
    /\ settings \in TimeoutSettings
    /\ pc = [r \in Reqs |-> "idle"]
    /\ req = [r \in Reqs |-> NoRequest]
    /\ depth = [r \in Reqs |-> 0]
    /\ resp = [r \in Reqs |-> NoResponse]
    /\ raised = [r \in Reqs |-> Nothing]
    /\ rid = [r \in Reqs |-> Nothing]
    /\ request_id_var = [r \in Reqs |-> "-"]
    /\ handler_called = [r \in Reqs |-> FALSE]
    /\ local = [r \in Reqs |-> NoLocal]
    /\ calls = [r \in Reqs |-> <<>>]
    /\ scratch = [r \in Reqs |-> Nothing]

NextTimeouts ==
    \E r \in Reqs :
        \/ TimeoutArrive(r)
        \/ CORSMiddleware(r)
        \/ MaxBodySizeMiddleware(r)
        \/ APIKeyMiddleware(r)
        \/ RequestIDMiddleware(r)
        \/ Route(r)
        \/ TimeoutChat(r)
        \/ TimeoutChatForwarded(r)
        \/ transcribe(r)
        \/ TimeoutTranscribeNormalized(r)
        \/ TimeoutTranscribeForwarded(r)
        \/ Send(r)

\* One request per slot, all slots in flight together.
SpecTimeouts == InitTimeouts /\ [][NextTimeouts]_vars

\* ---------------------------------------------------------------- liveness
\* The pipeline of Spec on fewer inputs, with the fairness that makes a
\* request in flight advance.  Every step but the arrival of a request is
\* taken once it can be: the middleware and handler code between two awaits
\* runs to the next await; the transcoder run returns or is ended by the
\* timeout of subprocess.run (audio.py 37-41); the upstream call returns or
\* is ended by the timeouts of the HTTP client (forwarder.py 54-57).
LiveSettings ==
    { s \in Settings : s.routing_mode = "audio_text" /\ s.audio_preprocess_enabled }

LiveRequests ==
    { q \in Requests : /\ IsRequest(q)
                       /\ q.authorization \in {Nothing, Some(Bearer \o ApiKey)} }

LiveOutcomes ==
    ConcurrentOutcomes
    \cup { o \in TransportOutcomes : o.kind = "response" /\ o.status = 200 /\ o.body = 1 }

AdmitLive(r) ==
    /\ \A o \in Reqs : pc[o] = "idle"
    /\ \E q \in LiveRequests : req' = [req EXCEPT ![r] = q]
    /\ pc' = [pc EXCEPT ![r] = "middleware"]
    /\ UNCHANGED <<config, settings, depth, resp, raised, rid, request_id_var,
                   handler_called, local, calls, scratch>>

LiveChatForwarded(r) ==
    /\ chat_completions_forwarded(r)
    /\ local'[r].upstream \in LiveOutcomes

LiveModelsForwarded(r) ==
    /\ models_forwarded(r)
    /\ local'[r].upstream \in LiveOutcomes

LiveTranscribeForwarded(r) ==
    /\ transcribe_forwarded(r)
    /\ local'[r].upstream \in LiveOutcomes

LiveAnalyzeForwarded(r) ==
    /\ analyze_forwarded(r)
    /\ local'[r].upstream \in LiveOutcomes

\* The steps of the gateway itself (all but the arrival of a request).
StepLive(r) ==
    \/ CORSMiddleware(r)
    \/ MaxBodySizeMiddleware(r)
    \/ APIKeyMiddleware(r)
    \/ RequestIDMiddleware(r)
    \/ Route(r)
    \/ health(r)
    \/ ConcurrentChat(r)
    \/ LiveChatForwarded(r)
    \/ models(r)
    \/ LiveModelsForwarded(r)
    \/ transcribe(r)
    \/ transcribe_normalized(r)
    \/ LiveTranscribeForwarded(r)
    \/ analyze(r)
    \/ analyze_normalized(r)
    \/ LiveAnalyzeForwarded(r)
    \/ Send(r)
    \/ Close(r)

InitLive ==
    /\ config = NoConfig
    /\ settings \in LiveSettings
    /\ pc = [r \in Reqs |-> "idle"]
    /\ req = [r \in Reqs |-> NoRequest]
    /\ depth = [r \in Reqs |-> 0]
    /\ resp = [r \in Reqs |-> NoResponse]
    /\ raised = [r \in Reqs |-> Nothing]
    /\ rid = [r \in Reqs |-> Nothing]
    /\ request_id_var = [r \in Reqs |-> "-"]
    /\ handler_called = [r \in Reqs |-> FALSE]
    /\ local = [r \in Reqs |-> NoLocal]
    /\ calls = [r \in Reqs |-> <<>>]
    /\ scratch = [r \in Reqs |-> Nothing]

NextLive == \E r \in Reqs : AdmitLive(r) \/ StepLive(r)

SpecLive == InitLive /\ [][NextLive]_vars /\ WF_vars(\E r \in Reqs : StepLive(r))

\* ----------------------------------------------------------------- library
\* The GatewayConfig objects (inference_gateway.core.config): a dataclass
\* whose constructor checks nothing, so every combination of the routing
\* fields exists ("" for text_base_url, None for audio_base_url: NoURL).
GatewayConfigs ==
    { [routing_mode |-> mode, text_base_url |-> t, audio_base_url |-> a] :
        mode \in {"single", "audio_text", "round_robin"},
        t \in {NoURL, TextURL}, a \in {NoURL, AudioURL} }

\* GatewayConfig.effective_base_url
GatewayConfig_effective_base_url(c) == c.text_base_url

\* The upstream selection of list_models (inference_gateway.core.operations).
list_models_base_url(c) ==
    IF c.routing_mode = "single"
    THEN IF GatewayConfig_effective_base_url(c) = NoURL THEN Exc("ConfigurationError")
         ELSE Ok(GatewayConfig_effective_base_url(c))
    ELSE IF c.routing_mode = "audio_text"
    THEN IF c.text_base_url = NoURL THEN Exc("ConfigurationError") ELSE Ok(c.text_base_url)
    ELSE Exc("ConfigurationError")

\* inference_gateway.core.client.forward_models, given how the HTTP call
\* ended.
client_forward_models(base_url, outcome) ==
    CASE outcome.kind = "response" ->
            Ok([status_code |-> outcome.status, content |-> UpstreamBodies[outcome.body],
                headers |-> UpstreamHeaders(outcome.status)])
      [] outcome.kind = "connect_error" ->
            [exc |-> "UpstreamUnreachableError", upstream |-> base_url]
      [] outcome.kind = "timeout" ->
            [exc |-> "UpstreamTimeoutError", upstream |-> base_url]
      [] OTHER -> [exc |-> "Exception", upstream |-> NoURL]

\* A call of a library operation occupies a slot like a request does; its
\* name stands where a request has its path.
LibraryCall(operation) == [NoRequest EXCEPT !.path = operation]

\* The value a library operation returns.
Returned(value, operation) ==
    [status |-> 0, body |-> value, by |-> operation, request_id |-> Nothing, headers |-> <<>>]

\* list_models up to the forwarding call.
list_models(r) ==
    /\ \A o \in Reqs : pc[o] = "idle"
    /\ req' = [req EXCEPT ![r] = LibraryCall("list_models")]
    /\ LET base_url == list_models_base_url(config)
       IN  IF IsOk(base_url)
           THEN /\ pc' = [pc EXCEPT ![r] = "forward"]
                /\ local' = [local EXCEPT ![r].base_url = base_url.ok]
                /\ UNCHANGED raised
           ELSE /\ pc' = [pc EXCEPT ![r] = "done"]
                /\ raised' = [raised EXCEPT ![r] = Some(base_url.exc)]
                /\ UNCHANGED local
    /\ UNCHANGED <<config, settings, depth, resp, rid, request_id_var, handler_called, calls,
                   scratch>>

\* list_models from the return of the forwarding call on.
list_models_forwarded(r) ==
    /\ pc[r] = "forward" /\ req[r].path = "list_models"
    /\ pc' = [pc EXCEPT ![r] = "done"]
    /\ \E outcome \in TransportOutcomes :
         LET result == client_forward_models(local[r].base_url, outcome)
             parsed == json_loads(result.ok.content)
         IN  /\ local' = [local EXCEPT ![r].upstream = outcome]
             /\ calls' = [calls EXCEPT ![r] =
                            @ \o outbound_calls(local[r].base_url, "/v1/models", outcome)]
             /\ IF ~IsOk(result)
                THEN /\ raised' = [raised EXCEPT ![r] = Some(result.exc)]
                     /\ UNCHANGED resp
                ELSE IF ~IsOk(parsed)
                THEN /\ raised' = [raised EXCEPT ![r] = Some("InvalidRequestError")]
                     /\ UNCHANGED resp
                ELSE /\ resp' = [resp EXCEPT ![r] = Returned(parsed.ok, "list_models")]
                     /\ UNCHANGED raised
    /\ UNCHANGED <<config, settings, req, depth, rid, request_id_var, handler_called, scratch>>

\* inference_gateway.core.routing.select_upstream_url: the base URL,
\* ConfigurationError, or the exception has_audio_content raised (the
\* library's has_audio_content is, line for line, that of app.routing).
core_select_upstream_url(request_body, c) ==
    IF c.routing_mode = "single"
    THEN IF GatewayConfig_effective_base_url(c) = NoURL THEN Exc("ConfigurationError")
         ELSE Ok(GatewayConfig_effective_base_url(c))
    ELSE IF c.routing_mode = "audio_text"
    THEN LET messages == IF "messages" \in DOMAIN request_body.obj
                         THEN request_body.obj["messages"] ELSE JArr(<<>>)
             audio == has_audio_content(messages)
         IN  IF ~IsOk(audio) THEN audio
             ELSE IF audio.ok
             THEN IF c.audio_base_url = NoURL THEN Exc("ConfigurationError")
                  ELSE Ok(c.audio_base_url)
             ELSE IF c.text_base_url = NoURL THEN Exc("ConfigurationError")
                  ELSE Ok(c.text_base_url)
    ELSE Exc("ConfigurationError")

\* chat_completion (the library operation) up to the forwarding call, called
\* with a request body that is a JSON object.
chat_completion(r) ==
    /\ \A o \in Reqs : pc[o] = "idle"
    /\ \E i \in 1..Len(ChatBodies) :
         LET base_url == core_select_upstream_url(ChatBodies[i], config)
         IN  /\ IsObj(ChatBodies[i])
             /\ req' = [req EXCEPT ![r] = [LibraryCall("chat_completion") EXCEPT !.body = i]]
             /\ IF IsOk(base_url)
                THEN /\ pc' = [pc EXCEPT ![r] = "forward"]
                     /\ local' = [local EXCEPT ![r].base_url = base_url.ok,
                                                ![r].request_body = ChatBodies[i]]
                     /\ UNCHANGED raised
                ELSE /\ pc' = [pc EXCEPT ![r] = "done"]
                     /\ raised' = [raised EXCEPT ![r] = Some(base_url.exc)]
                     /\ UNCHANGED local
    /\ UNCHANGED <<config, settings, depth, resp, rid, request_id_var, handler_called, calls,
                   scratch>>

\* chat_completion from the return of the forwarding call on.
chat_completion_forwarded(r) ==
    /\ pc[r] = "forward" /\ req[r].path = "chat_completion"
    /\ pc' = [pc EXCEPT ![r] = "done"]
    /\ \E outcome \in ConcurrentOutcomes :
         LET result == client_forward_models(local[r].base_url, outcome)
             parsed == json_loads(result.ok.content)
         IN  /\ local' = [local EXCEPT ![r].upstream = outcome]
             /\ calls' = [calls EXCEPT ![r] =
                            @ \o outbound_calls(local[r].base_url, "/v1/chat/completions",
                                                outcome)]
             /\ IF ~IsOk(result)
                THEN /\ raised' = [raised EXCEPT ![r] = Some(result.exc)]
                     /\ UNCHANGED resp
                ELSE IF ~IsOk(parsed)
                THEN /\ raised' = [raised EXCEPT ![r] = Some("InvalidRequestError")]
                     /\ UNCHANGED resp
                ELSE /\ resp' = [resp EXCEPT ![r] = Returned(parsed.ok, "chat_completion")]
                     /\ UNCHANGED raised
    /\ UNCHANGED <<config, settings, req, depth, rid, request_id_var, handler_called, scratch>>

\* A request for the model list arrives.
AdmitModels(r) ==
    /\ Admit(r)
    /\ req'[r].path = "/v1/models"

InitListModels ==
    /\ config \in GatewayConfigs
    /\ settings \in Settings
    /\ pc = [r \in Reqs |-> "idle"]
    /\ req = [r \in Reqs |-> NoRequest]
    /\ depth = [r \in Reqs |-> 0]
    /\ resp = [r \in Reqs |-> NoResponse]
    /\ raised = [r \in Reqs |-> Nothing]
    /\ rid = [r \in Reqs |-> Nothing]
    /\ request_id_var = [r \in Reqs |-> "-"]
    /\ handler_called = [r \in Reqs |-> FALSE]
    /\ local = [r \in Reqs |-> NoLocal]
    /\ calls = [r \in Reqs |-> <<>>]
    /\ scratch = [r \in Reqs |-> Nothing]

NextListModels ==
    \E r \in Reqs :
        \/ AdmitModels(r)
        \/ CORSMiddleware(r)
        \/ MaxBodySizeMiddleware(r)
        \/ APIKeyMiddleware(r)
        \/ RequestIDMiddleware(r)
        \/ Route(r)
        \/ models(r)
        \/ models_forwarded(r)
        \/ Send(r)
        \/ list_models(r)
        \/ list_models_forwarded(r)
        \/ chat_completion(r)
        \/ chat_completion_forwarded(r)
        \/ Close(r)

\* The model-listing operation of the HTTP service (GET /v1/models) and of
\* the library (list_models), each under its own configuration object.
SpecListModels == InitListModels /\ [][NextListModels]_vars

\* ----------------------------------------------------------------- startup
\* Settings.validate_routing_mode (and the Literal type of the field).
validate_routing_mode(v) == v \in {"single", "audio_text"}

\* Settings(**values): the field validators, then the model validator; the
\* object is built when both pass.
Settings_new(values) ==
    IF ~validate_routing_mode(values.routing_mode) THEN Exc("ValidationError")
    ELSE IF ~validate_routing_dependencies(values) THEN Exc("ValidationError")
    ELSE Ok(values)

\* get_settings, the environment holding these values: every exception of
\* the construction is raised as ValueError.
get_settings(values) ==
    IF IsOk(Settings_new(values)) THEN Settings_new(values) ELSE Exc("ValueError")

\* _load_settings_safe: None when get_settings raises.
load_settings_safe(values) ==
    IF IsOk(get_settings(values)) THEN Some(get_settings(values).ok) ELSE Nothing

\* max_bytes of create_app when no settings were loaded.
FallbackMaxBytes == 20000000

\* The arguments create_app gives the middleware classes.
create_app_arguments(values) ==
    LET loaded == load_settings_safe(values)
    IN  [api_key |-> IF loaded # Nothing THEN loaded[1].api_key ELSE Nothing,
         max_bytes |-> IF loaded # Nothing THEN loaded[1].audio_max_upload_bytes
                       ELSE FallbackMaxBytes]

\* GatewayConfig(...): the constructor a dataclass generates assigns the
\* fields and checks nothing.
GatewayConfig_new(values) == Ok(values)

\* The values the environment can hold when the service starts: every
\* combination of the routing fields, with and without an API key.
Environments ==
    { [ api_key |-> k,
        routing_mode |-> u.routing_mode,
        text_base_url |-> u.text_base_url,
        audio_base_url |-> u.audio_base_url,
        default_base_url |-> u.default_base_url,
        audio_max_upload_bytes |-> MaxFileLen - 1,
        audio_preprocess_enabled |-> TRUE,
        transcribe_system_prompt |-> "Transcribe the following audio.",
        analyze_system_prompt_prefix |-> <<>> ] :
      k \in {Nothing, Some(ApiKey)}, u \in AnyRoutingSettings }

\* The environment of a program that uses the library.
LibraryEnvironment ==
    CHOOSE v \in Environments :
        /\ v.routing_mode = "audio_text" /\ IsOk(Settings_new(v)) /\ v.api_key = Nothing

\* The service was started from settings (the values of its environment), or
\* a program built a GatewayConfig for the library.
InitStartup ==
    /\ \/ settings \in Environments /\ config = NoConfig
       \/ settings = LibraryEnvironment
          /\ \E values \in GatewayConfigs : config = GatewayConfig_new(values).ok
    /\ pc = [r \in Reqs |-> "idle"]
    /\ req = [r \in Reqs |-> NoRequest]
    /\ depth = [r \in Reqs |-> 0]
    /\ resp = [r \in Reqs |-> NoResponse]
    /\ raised = [r \in Reqs |-> Nothing]
    /\ rid = [r \in Reqs |-> Nothing]
    /\ request_id_var = [r \in Reqs |-> "-"]
    /\ handler_called = [r \in Reqs |-> FALSE]
    /\ local = [r \in Reqs |-> NoLocal]
    /\ calls = [r \in Reqs |-> <<>>]
    /\ scratch = [r \in Reqs |-> Nothing]

\* The two layers that take an argument from create_app.
StartupMaxBodySize(r) ==
    /\ pc[r] = "middleware" /\ NextLayer(r) = "MaxBodySizeMiddleware"
    /\ Apply(r, MaxBodySizeMiddleware_dispatch(create_app_arguments(settings).max_bytes, req[r]))
    /\ UNCHANGED <<config, settings, req, raised, rid, request_id_var, handler_called, local, calls, scratch>>

StartupAPIKey(r) ==
    /\ pc[r] = "middleware" /\ NextLayer(r) = "APIKeyMiddleware"
    /\ Apply(r, APIKeyMiddleware_dispatch(create_app_arguments(settings).api_key, req[r]))
    /\ UNCHANGED <<config, settings, req, raised, rid, request_id_var, handler_called, local, calls, scratch>>

\* The first statement of every handler but health, settings = get_settings(),
\* stands outside every try block: its ValueError leaves the handler.
get_settings_raises(r) ==
    /\ pc[r] = "handler" /\ req[r].path # "/health"
    /\ ~IsOk(get_settings(settings))
    /\ Raise(r, get_settings(settings).exc)
    /\ UNCHANGED <<config, settings, req, depth, rid, request_id_var, handler_called, local, calls,
                   scratch>>

\* The handlers once get_settings has returned the Settings object.
StartupHandler(r) ==
    /\ IsOk(get_settings(settings))
    /\ \/ ConcurrentChat(r)
       \/ LiveChatForwarded(r)
       \/ models(r)
       \/ LiveModelsForwarded(r)
       \/ transcribe(r)
       \/ transcribe_normalized(r)
       \/ LiveTranscribeForwarded(r)
       \/ analyze(r)
       \/ analyze_normalized(r)
       \/ LiveAnalyzeForwarded(r)

\* A library operation is called with the GatewayConfig that was built.
StartupListModels(r) ==
    /\ config # NoConfig
    /\ list_models(r)

NextStartup ==
    \E r \in Reqs :
        \/ AdmitLive(r)
        \/ CORSMiddleware(r)
        \/ StartupMaxBodySize(r)
        \/ StartupAPIKey(r)
        \/ RequestIDMiddleware(r)
        \/ Route(r)
        \/ health(r)
        \/ get_settings_raises(r)
        \/ StartupHandler(r)
        \/ Send(r)
        \/ StartupListModels(r)
        \/ list_models_forwarded(r)
        \/ Close(r)

\* The service from its start, whatever its environment holds, and the
\* library under whatever GatewayConfig its caller built.
SpecStartup == InitStartup /\ [][NextStartup]_vars

\* ------------------------------------------------------------------ claims
\* The type of the error object at the top level of a response body, the
\* detail member of a body, and the type of the error object in the detail.
TopErrorType(response) ==
    IF IsObj(response.body) /\ "error" \in DOMAIN response.body.obj
    THEN response.body.obj["error"].obj["type"].str ELSE "none"

Detail(response) ==
    IF IsObj(response.body) /\ "detail" \in DOMAIN response.body.obj
    THEN response.body.obj["detail"] ELSE JNull

DetailErrorType(response) ==
    IF IsObj(Detail(response)) /\ "error" \in DOMAIN Detail(response).obj
    THEN Detail(response).obj["error"].obj["type"].str ELSE "none"

Answered(r) == pc[r] = "done"

KeyConfigured == ~IsNothing(settings.api_key)

\* The Authorization header is exactly "Bearer " followed by the configured key.
ValidBearer(q) == KeyConfigured /\ q.authorization = Some(Bearer \o settings.api_key[1])

\* C1: every response the gateway emits carries an X-Request-ID header,
\* the 401 of the authentication layer and the 413 of the body-size guard
\* included.
C1_EveryResponseHasRequestID ==
    \A r \in Reqs : Answered(r) => ~IsNothing(resp[r].request_id)

\* C2: authentication runs before the body-size guard: with an API key
\* configured, a POST to an upload path without a valid bearer token is
\* answered 401 by the authentication layer, whatever its Content-Length,
\* and never 413.
C2_AuthBeforeSizeGuard ==
    \A r \in Reqs :
        ( /\ Answered(r)
          /\ KeyConfigured
          /\ req[r].method = "POST"
          /\ req[r].path \in guarded_paths
          /\ ~ValidBearer(req[r]) )
        => resp[r].status = 401 /\ resp[r].by = "APIKeyMiddleware"

\* C3 as stated: with an API key configured a request reaches its handler
\* only if its path is /health or its Authorization header is exactly
\* "Bearer <key>"; with no API key configured every request (whose method
\* matches its route) reaches its handler.
C3_Original ==
    \A r \in Reqs :
        /\ (KeyConfigured /\ handler_called[r])
             => (req[r].path = "/health" \/ ValidBearer(req[r]))
        /\ (~KeyConfigured /\ Answered(r) /\ req[r].method = RouteMethod(req[r].path))
             => handler_called[r]

\* C3 as amended: with an API key configured a request reaches its handler
\* only if its path is /health or its Authorization header is exactly
\* "Bearer <key>"; with no API key configured the authentication layer
\* answers no request itself, and a request whose method matches its route
\* reaches its handler unless the body-size guard answered it with 413.
C3_AuthGate ==
    \A r \in Reqs :
        /\ (KeyConfigured /\ handler_called[r])
             => (req[r].path = "/health" \/ ValidBearer(req[r]))
        /\ (~KeyConfigured /\ Answered(r))
             => /\ resp[r].by # "APIKeyMiddleware"
                /\ (req[r].method = RouteMethod(req[r].path) /\ ~handler_called[r])
                     => (resp[r].status = 413 /\ resp[r].by = "MaxBodySizeMiddleware")

\* A request with the right bearer token has been served by the models
\* handler of a gateway that has an API key.
C3_Witness ==
    \E r \in Reqs :
        /\ Answered(r) /\ KeyConfigured /\ handler_called[r]
        /\ req[r].path = "/v1/models" /\ ValidBearer(req[r])

\* C4: with an API key configured and a path other than /health, a request
\* whose Authorization header does not start with "Bearer " is answered 401
\* auth_required, one whose header has that form with another key is answered
\* 401 auth_failed, and in both cases neither the inner layers nor the
\* handler run.
C4_AuthRejections ==
    \A r \in Reqs :
        (Answered(r) /\ KeyConfigured /\ req[r].path # "/health" /\ ~ValidBearer(req[r]))
        => /\ resp[r].status = 401
           /\ TopErrorType(resp[r]) =
                IF StartsWith(GetOr(req[r].authorization, <<>>), Bearer)
                THEN "auth_failed" ELSE "auth_required"
           /\ resp[r].by = "APIKeyMiddleware"
           /\ ~handler_called[r]

RelayPaths == {"/v1/chat/completions", "/v1/models"}

\* C5: for chat completions and models, a forwarding call that fails to
\* reach the upstream is answered 502 upstream_unreachable with an upstream
\* field equal to the base URL the handler selected, and one that exceeds a
\* deadline is answered 504 upstream_timeout.  (The error object is the
\* detail of the HTTPException; where it sits in the body is the subject of
\* C10.)
C5_ForwardingErrors ==
    \A r \in Reqs :
        (Answered(r) /\ req[r].path \in RelayPaths)
        => /\ local[r].upstream.kind = "connect_error"
                => /\ resp[r].status = 502
                   /\ DetailErrorType(resp[r]) = "upstream_unreachable"
                   /\ Detail(resp[r]).obj["upstream"] = JStr(local[r].base_url)
                   /\ calls[r] = <<rstrip(local[r].base_url, "/")
                                     \o <<IF req[r].path = "/v1/models" THEN "/v1/models"
                                          ELSE "/v1/chat/completions">> >>
           /\ local[r].upstream.kind = "timeout"
                => /\ resp[r].status = 504
                   /\ DetailErrorType(resp[r]) = "upstream_timeout"

\* A chat completion whose upstream call timed out has been answered, and
\* the base URL it was sent to ends in a slash.
C5_Witness ==
    \E r \in Reqs :
        /\ Answered(r) /\ req[r].path = "/v1/chat/completions"
        /\ local[r].upstream.kind = "timeout"
        /\ local[r].base_url = DefaultURL

\* C6: for chat completions and models, the status code relayed to the
\* caller equals the upstream's status code, whatever it is.
C6_StatusRelayed ==
    \A r \in Reqs :
        (Answered(r) /\ req[r].path \in RelayPaths /\ local[r].upstream.kind = "response")
        => /\ resp[r].status = local[r].upstream.status
           /\ resp[r].by \in {"chat_completions", "models"}

\* An upstream 503 has been relayed by the models handler.
C6_Witness ==
    \E r \in Reqs :
        /\ Answered(r) /\ req[r].path = "/v1/models"
        /\ local[r].upstream.kind = "response" /\ local[r].upstream.status = 503

\* C7: in every endpoint handler, an exception that is not one of the typed
\* domain errors (here: an exception of the forwarding call other than the
\* two the forwarder translates) is answered 500 internal_error with the
\* fixed generic message.
C7_UnexpectedExceptionIsInternalError ==
    \A r \in Reqs :
        (Answered(r) /\ handler_called[r] /\ local[r].upstream.kind = "other_error")
        => /\ resp[r].status = 500
           /\ DetailErrorType(resp[r]) = "internal_error"
           /\ Detail(resp[r]).obj["error"].obj["message"] = JStr("An unexpected error occurred")

\* The upstream body is a JSON object whose choices is a non-empty list whose
\* first element is an object whose message is an object whose content is a
\* string.
HasStringContent(b) ==
    /\ IsObj(b) /\ "choices" \in DOMAIN b.obj
    /\ IsArr(b.obj["choices"]) /\ Len(b.obj["choices"].arr) > 0
    /\ LET first == b.obj["choices"].arr[1]
       IN  /\ IsObj(first) /\ "message" \in DOMAIN first.obj
           /\ IsObj(first.obj["message"]) /\ "content" \in DOMAIN first.obj["message"].obj
           /\ IsStr(first.obj["message"].obj["content"])

\* C8: for /v1/transcribe and /v1/analyze, an upstream response whose body
\* is not JSON, lacks choices[0].message.content or has a value of the wrong
\* type on that path (a content that is not a string included) is answered
\* 502 upstream_invalid_response.
C8_InvalidUpstreamResponse ==
    \A r \in Reqs :
        ( /\ Answered(r) /\ req[r].path \in guarded_paths
          /\ local[r].upstream.kind = "response"
          /\ ~HasStringContent(UpstreamBodies[local[r].upstream.body]) )
        => resp[r].status = 502 /\ DetailErrorType(resp[r]) = "upstream_invalid_response"

\* The request passes the authentication layer.
Authenticated(q) == ~KeyConfigured \/ ValidBearer(q)

Oversized(q) ==
    /\ q.method = "POST" /\ q.path = "/v1/transcribe"
    /\ Len(q.file) > settings.audio_max_upload_bytes

\* C9 as stated: through the full gateway, a POST to /v1/transcribe whose
\* file is longer than the upload ceiling is answered 400 audio_too_large.
C9_Original ==
    \A r \in Reqs :
        (Answered(r) /\ Authenticated(req[r]) /\ Oversized(req[r]))
        => resp[r].status = 400 /\ DetailErrorType(resp[r]) = "audio_too_large"

\* C9 as amended: through the full gateway, an authenticated POST to
\* /v1/transcribe whose file is longer than the upload ceiling is answered
\* 413 request_too_large by the body-size guard, the handler not being
\* invoked, when it carries a numeric Content-Length, and 400 audio_too_large
\* by the handler when it carries none.
C9_OversizedUpload ==
    \A r \in Reqs :
        (Answered(r) /\ Authenticated(req[r]) /\ Oversized(req[r]))
        => IF ~IsNothing(req[r].content_length) /\ IsOk(int(req[r].content_length[1]))
           THEN /\ resp[r].status = 413 /\ TopErrorType(resp[r]) = "request_too_large"
                /\ ~handler_called[r]
           ELSE /\ resp[r].status = 400 /\ DetailErrorType(resp[r]) = "audio_too_large"
                /\ resp[r].by = "transcribe"

\* An oversized upload without Content-Length has been answered by the
\* handler.
C9_Witness ==
    \E r \in Reqs :
        /\ Answered(r) /\ Authenticated(req[r]) /\ Oversized(req[r])
        /\ IsNothing(req[r].content_length) /\ resp[r].status = 400

Handlers == {"health", "chat_completions", "models", "transcribe", "analyze"}

\* The response is an error the handler produced itself (not a relayed
\* upstream response).
NonRelayError(r) ==
    /\ resp[r].by \in Handlers /\ resp[r].status >= 400
    /\ ~(req[r].path \in RelayPaths /\ local[r].upstream.kind = "response")

\* C10: every non-relay error response of a handler has the error object
\* {"type", "message"} at the top level of its body, and a top-level
\* "upstream" member exactly on the forwarding errors.
C10_ErrorBodyShape ==
    \A r \in Reqs :
        (Answered(r) /\ NonRelayError(r))
        => /\ IsObj(resp[r].body) /\ "error" \in DOMAIN resp[r].body.obj
           /\ DOMAIN resp[r].body.obj["error"].obj = {"type", "message"}
           /\ ("upstream" \in DOMAIN resp[r].body.obj)
                <=> (TopErrorType(resp[r]) \in {"upstream_unreachable", "upstream_timeout"})

\* The request is one the body-size guard rejects: a POST to a guarded path
\* whose Content-Length is present, numeric and above the ceiling.
OverCeiling(q) ==
    /\ q.method = "POST" /\ q.path \in {"/v1/transcribe", "/v1/analyze"}
    /\ ~IsNothing(q.content_length)
    /\ \A i \in 1..Len(q.content_length[1]) : IsDigit(q.content_length[1][i])
    /\ DecimalValue(q.content_length[1]) > settings.audio_max_upload_bytes

\* C11: the body-size guard answers 413 request_too_large, the handler not
\* being invoked and no upstream call or transcoder run being made, if and
\* only if the request is a POST to /v1/transcribe or /v1/analyze whose
\* Content-Length is present, numeric and greater than the ceiling; it
\* answers no other request.
C11_BodySizeGuard ==
    \A r \in Reqs :
        Answered(r)
        => /\ OverCeiling(req[r])
                => /\ resp[r].status = 413 /\ TopErrorType(resp[r]) = "request_too_large"
                   /\ resp[r].by = "MaxBodySizeMiddleware"
                   /\ ~handler_called[r] /\ calls[r] = <<>> /\ scratch[r] = Nothing
           /\ ~OverCeiling(req[r])
                => resp[r].by # "MaxBodySizeMiddleware" /\ resp[r].status # 413

\* A POST to /v1/analyze whose Content-Length equals the ceiling has passed
\* the guard and reached its handler.
C11_Witness ==
    \E r \in Reqs :
        /\ Answered(r) /\ req[r].path = "/v1/analyze" /\ req[r].method = "POST"
        /\ req[r].content_length = Some(str(settings.audio_max_upload_bytes))
        /\ handler_called[r]

\* C12: POST /v1/chat/completions answers 400 invalid_json when the body
\* does not parse as JSON, and 400 invalid_request when it parses to
\* anything other than a JSON object.
C12_BodyValidation ==
    \A r \in Reqs :
        (Answered(r) /\ req[r].path = "/v1/chat/completions" /\ resp[r].by = "chat_completions")
        => LET body == ChatBodies[req[r].body]
           IN  /\ "raw" \in DOMAIN body
                    => resp[r].status = 400 /\ DetailErrorType(resp[r]) = "invalid_json"
               /\ ("raw" \notin DOMAIN body /\ ~IsObj(body))
                    => resp[r].status = 400 /\ DetailErrorType(resp[r]) = "invalid_request"

\* The messages member of a request body is absent or a list of objects
\* (the type has_audio_content declares for its argument).
MessagesAreObjects(body) ==
    "messages" \in DOMAIN body.obj
    => /\ IsArr(body.obj["messages"])
       /\ \A i \in 1..Len(body.obj["messages"].arr) : IsObj(body.obj["messages"].arr[i])

\* Some message of the body has a content that is a list holding, at its top
\* level, an object whose type is "input_audio" or "audio".
TopLevelAudioPart(body) ==
    /\ "messages" \in DOMAIN body.obj
    /\ \E i \in 1..Len(body.obj["messages"].arr) :
         LET msg == body.obj["messages"].arr[i].obj
         IN  /\ "content" \in DOMAIN msg /\ IsArr(msg["content"])
             /\ \E j \in 1..Len(msg["content"].arr) :
                  LET part == msg["content"].arr[j]
                  IN  /\ IsObj(part) /\ "type" \in DOMAIN part.obj
                      /\ part.obj["type"] \in {JStr("input_audio"), JStr("audio")}

\* The normalizer returned bytes to the handler of request r.
Normalized(r) ==
    /\ Len(req[r].file) <= settings.audio_max_upload_bytes
    /\ settings.audio_preprocess_enabled
         => /\ local[r].transcoder.kind = "exit" /\ local[r].transcoder.returncode = 0
            /\ ~IsNothing(local[r].transcoder.output)

\* Request r got as far as selecting its upstream, with a request body of
\* the declared type.
SelectionReached(r) ==
    /\ Answered(r) /\ handler_called[r]
    /\ CASE req[r].path = "/v1/chat/completions" ->
               /\ IsObj(ChatBodies[req[r].body])
               /\ MessagesAreObjects(ChatBodies[req[r].body])
         [] req[r].path \in {"/v1/transcribe", "/v1/analyze"} -> Normalized(r)
         [] req[r].path = "/v1/models" -> TRUE
         [] OTHER -> FALSE

\* The base URL the spec's router names for request r (NoURL: it is unset),
\* and whether the routing mode is one the router knows.
KnownMode == settings.routing_mode \in {"single", "audio_text"}

SingleTarget ==
    IF settings.default_base_url # NoURL THEN settings.default_base_url
    ELSE settings.text_base_url

Target(r) ==
    CASE settings.routing_mode = "single" -> SingleTarget
      [] req[r].path = "/v1/models" -> settings.text_base_url
      [] req[r].path \in {"/v1/transcribe", "/v1/analyze"} -> settings.audio_base_url
      [] OTHER -> IF TopLevelAudioPart(ChatBodies[req[r].body])
                  THEN settings.audio_base_url ELSE settings.text_base_url

ConfigurationErrorAnswer(r) ==
    /\ resp[r].status = 500 /\ DetailErrorType(resp[r]) = "configuration_error"
    /\ calls[r] = <<>>

\* C13: whenever upstream selection fails with a configuration error (the
\* base URL it needs is unset, or the routing mode is unknown), the handler of
\* chat completions, models, transcribe or analyze answers 500
\* configuration_error, and no upstream call is made.
C13_ConfigurationError ==
    \A r \in Reqs :
        (SelectionReached(r) /\ (~KnownMode \/ Target(r) = NoURL))
        => ConfigurationErrorAnswer(r)

\* transcribe, in mode audio_text with no audio base URL, has answered 500.
C13_Witness ==
    \E r \in Reqs :
        /\ SelectionReached(r) /\ req[r].path = "/v1/transcribe"
        /\ settings.routing_mode = "audio_text" /\ settings.audio_base_url = NoURL
        /\ resp[r].status = 500

\* C14: in routing mode audio_text, select_upstream_url (called by chat
\* completions with the request body, by transcribe and analyze with the
\* body they build) returns audioBaseURL when some message's content is a
\* list holding an object part whose type is "input_audio" or "audio", and
\* textBaseURL otherwise; when the URL it would return is unset it fails
\* with a configuration error.  (Bodies whose messages is a list of
\* objects, or absent.)
C14_AudioTextRouting ==
    \A r \in Reqs :
        ( /\ SelectionReached(r) /\ req[r].path # "/v1/models"
          /\ settings.routing_mode = "audio_text" )
        => IF Target(r) = NoURL THEN ConfigurationErrorAnswer(r)
           ELSE /\ local[r].base_url = Target(r)
                /\ calls[r] = <<rstrip(Target(r), "/") \o <<"/v1/chat/completions">> >>

\* A chat completion with an audio part has been sent to the audio upstream
\* of a gateway that also has a text upstream.
C14_Witness ==
    \E r \in Reqs :
        /\ SelectionReached(r) /\ req[r].path = "/v1/chat/completions"
        /\ settings.routing_mode = "audio_text"
        /\ settings.text_base_url = TextURL /\ settings.audio_base_url = AudioURL
        /\ TopLevelAudioPart(ChatBodies[req[r].body])
        /\ local[r].base_url = AudioURL

\* C15: in routing mode single, select_upstream_url returns defaultBaseURL
\* when it is set and textBaseURL otherwise, whatever the request body
\* holds; it fails with a configuration error when both are unset.
C15_SingleRouting ==
    \A r \in Reqs :
        ( /\ Answered(r) /\ handler_called[r] /\ settings.routing_mode = "single"
          /\ \/ req[r].path = "/v1/chat/completions" /\ IsObj(ChatBodies[req[r].body])
             \/ req[r].path \in {"/v1/transcribe", "/v1/analyze"} /\ Normalized(r) )
        => IF SingleTarget = NoURL THEN ConfigurationErrorAnswer(r)
           ELSE /\ local[r].base_url = SingleTarget
                /\ Len(calls[r]) = 1

\* In mode single with all three URLs set, a chat completion whose messages
\* member is null has been sent to the default upstream.
C15_Witness ==
    \E r \in Reqs :
        /\ Answered(r) /\ req[r].path = "/v1/chat/completions" /\ handler_called[r]
        /\ settings.routing_mode = "single"
        /\ settings.default_base_url = DefaultURL /\ settings.text_base_url = TextURL
        /\ settings.audio_base_url = AudioURL
        /\ ChatBodies[req[r].body] = JObj([messages |-> JNull])
        /\ local[r].base_url = DefaultURL

\* C16: audio detection (observed through the upstream that chat
\* completions selects in mode audio_text) answers true exactly when some
\* message has a content that is a list holding, at its top level, an object
\* part whose type is "input_audio" or "audio": not for an empty message
\* list, string contents, lists without such a part, or audio-typed objects
\* nested deeper.
C16_AudioDetection ==
    \A r \in Reqs :
        ( /\ SelectionReached(r) /\ req[r].path = "/v1/chat/completions"
          /\ settings.routing_mode = "audio_text" )
        => LET body == ChatBodies[req[r].body]
               detected == local[r].base_url = settings.audio_base_url
           IN  /\ detected <=> TopLevelAudioPart(body)
               /\ body = JObj([messages |-> JArr(<<>>)]) => ~detected
               /\ body = JObj([messages |-> JArr(<<Msg(JStr("hi"))>>)]) => ~detected
               /\ body = JObj([messages |-> JArr(<<Msg(JArr(<<JArr(<<AudioPart("audio")>>)>>))>>)])
                    => ~detected

\* A chat completion whose only audio-typed object is nested one level below
\* the content list has been sent to the text upstream.
C16_Witness ==
    \E r \in Reqs :
        /\ SelectionReached(r) /\ req[r].path = "/v1/chat/completions"
        /\ settings.routing_mode = "audio_text"
        /\ ChatBodies[req[r].body]
             = JObj([messages |-> JArr(<<Msg(JArr(<<JArr(<<AudioPart("audio")>>)>>))>>)])
        /\ local[r].base_url = TextURL

\* C17: in routing mode audio_text the model-listing operation forwards to
\* textBaseURL and never to audioBaseURL, in the HTTP handler and in the
\* library's list_models alike (a library call whose configuration has no
\* textBaseURL fails with a configuration error and makes no call).
C17_ModelsUseTextUpstream ==
    \A r \in Reqs :
        /\ ( /\ Answered(r) /\ req[r].path = "/v1/models" /\ handler_called[r]
             /\ settings.routing_mode = "audio_text" )
           => /\ local[r].base_url = settings.text_base_url
              /\ calls[r] = <<rstrip(settings.text_base_url, "/") \o <<"/v1/models">> >>
        /\ ( /\ Answered(r) /\ req[r].path = "list_models"
             /\ config.routing_mode = "audio_text" )
           => IF config.text_base_url = NoURL
              THEN calls[r] = <<>> /\ raised[r] = Some("ConfigurationError")
              ELSE calls[r] = <<rstrip(config.text_base_url, "/") \o <<"/v1/models">> >>

\* list_models, called in mode audio_text with both URLs set, has returned
\* what the text upstream answered.
C17_Witness ==
    \E r \in Reqs :
        /\ Answered(r) /\ req[r].path = "list_models"
        /\ config.routing_mode = "audio_text"
        /\ config.text_base_url = TextURL /\ config.audio_base_url = AudioURL
        /\ resp[r].by = "list_models" /\ calls[r] = <<TextURL \o <<"/v1/models">> >>

\* Request r is an upload that reached its handler.
Uploaded(r) ==
    req[r].path \in {"/v1/transcribe", "/v1/analyze"} /\ handler_called[r]

\* C18: normalize fails with audio_too_large for every input longer than
\* maxUploadBytes, with preprocessing enabled or disabled, before any
\* processing: no scratch directory is created, the transcoder is not
\* started (and nothing is forwarded).
C18_OversizedInput ==
    \A r \in Reqs :
        (Uploaded(r) /\ Len(req[r].file) > settings.audio_max_upload_bytes)
        => /\ pc[r] \in {"handler", "return", "done"}
           /\ scratch[r] = Nothing
           /\ local[r].transcoder = NoFfmpeg
           /\ calls[r] = <<>>
           /\ pc[r] \in {"return", "done"}
                => resp[r].status = 400 /\ DetailErrorType(resp[r]) = "audio_too_large"

\* With preprocessing disabled, an upload longer than the ceiling has been
\* answered.
C18_Witness ==
    \E r \in Reqs :
        /\ Answered(r) /\ Uploaded(r) /\ ~settings.audio_preprocess_enabled
        /\ Len(req[r].file) > settings.audio_max_upload_bytes
        /\ resp[r].status = 400

\* C19: the scratch directory exists only while the transcoder runs: on
\* every way out of normalize (success, non-zero exit, timeout, any other
\* exception) it and the files in it are gone.
C19_ScratchRemoved ==
    \A r \in Reqs :
        /\ pc[r] = "ffmpeg" => scratch[r] # Nothing
        /\ pc[r] # "ffmpeg" => scratch[r] = Nothing

\* A request whose transcoder run timed out has been answered, and its
\* scratch directory is gone.
C19_Witness ==
    \E r \in Reqs :
        /\ Answered(r) /\ Uploaded(r) /\ local[r].transcoder.kind = "timeout"
        /\ scratch[r] = Nothing

\* The audio data of the chat request the handler of r built.
AudioData(r) ==
    local[r].request_body.obj["messages"].arr[2].obj["content"].arr[1]
        .obj["input_audio"].obj["data"]

\* C20: with preprocessing enabled and an input within the size limit,
\* normalize fails with audio_timeout when the transcoder exceeds its
\* timeout, fails with invalid_audio when it exits with a non-zero status,
\* and otherwise returns the bytes the transcoder wrote to its output file
\* (which the handler then encodes into the request it forwards).
C20_TranscoderOutcomes ==
    \A r \in Reqs :
        ( /\ Answered(r) /\ Uploaded(r) /\ settings.audio_preprocess_enabled
          /\ Len(req[r].file) <= settings.audio_max_upload_bytes )
        => LET t == local[r].transcoder
           IN  /\ t.kind = "timeout"
                    => /\ resp[r].status = 400 /\ DetailErrorType(resp[r]) = "audio_timeout"
                       /\ calls[r] = <<>>
               /\ (t.kind = "exit" /\ t.returncode # 0)
                    => /\ resp[r].status = 400 /\ DetailErrorType(resp[r]) = "invalid_audio"
                       /\ calls[r] = <<>>
               /\ (t.kind = "exit" /\ t.returncode = 0 /\ ~IsNothing(t.output))
                    => /\ Len(calls[r]) = 1
                       /\ AudioData(r) = JStr([b64 |-> t.output[1]])

\* The bytes the transcoder wrote for a request, which differ from the
\* uploaded file, have been forwarded.
C20_Witness ==
    \E r \in Reqs :
        /\ Answered(r) /\ Uploaded(r) /\ settings.audio_preprocess_enabled
        /\ local[r].transcoder.kind = "exit" /\ local[r].transcoder.returncode = 0
        /\ local[r].transcoder.output = Some(<<"b", "a">>)
        /\ req[r].file = <<"a">>
        /\ Len(calls[r]) = 1

\* C21: when preprocessing is disabled, normalize is the identity on every
\* input that does not exceed maxUploadBytes: the handler goes on with
\* exactly the bytes that were uploaded (they are what it encodes into the
\* request it forwards), no scratch directory is created and the transcoder
\* is not started.
C21_DisabledIsIdentity ==
    \A r \in Reqs :
        ( /\ Uploaded(r) /\ ~settings.audio_preprocess_enabled
          /\ Len(req[r].file) <= settings.audio_max_upload_bytes )
        => /\ pc[r] # "ffmpeg"
           /\ scratch[r] = Nothing
           /\ local[r].transcoder = NoFfmpeg
           /\ pc[r] \in {"forward", "return", "done"}
                => AudioData(r) = JStr(b64encode(req[r].file))

\* With preprocessing disabled, an upload of exactly maxUploadBytes bytes has
\* been forwarded unchanged.
C21_Witness ==
    \E r \in Reqs :
        /\ Answered(r) /\ Uploaded(r) /\ ~settings.audio_preprocess_enabled
        /\ Len(req[r].file) = settings.audio_max_upload_bytes
        /\ req[r].file = <<"b">>
        /\ AudioData(r) = JStr(b64encode(<<"b">>))
        /\ Len(calls[r]) = 1

\* The type of the error the normalizer raised for request r ("none": it
\* raised no AudioProcessingError).
NormalizerError(r) ==
    CASE Len(req[r].file) > settings.audio_max_upload_bytes -> "audio_too_large"
      [] local[r].transcoder.kind = "timeout" -> "audio_timeout"
      [] local[r].transcoder.kind = "exit" /\ local[r].transcoder.returncode # 0
            -> "invalid_audio"
      [] OTHER -> "none"

\* C22: for /v1/transcribe and /v1/analyze, every AudioProcessingError the
\* normalizer raises is answered 400 by the handler, with the error's own
\* type string (audio_too_large, invalid_audio or audio_timeout) as the type
\* of the error object, and nothing is forwarded; the handlers answer 400 in
\* no other case.  (The error object is the detail of the HTTPException;
\* where it sits in the body is the subject of C10.)
C22_AudioErrorsAre400 ==
    \A r \in Reqs :
        (Answered(r) /\ Uploaded(r))
        => /\ NormalizerError(r) # "none"
                => /\ resp[r].status = 400
                   /\ DetailErrorType(resp[r]) = NormalizerError(r)
                   /\ resp[r].by \in {"transcribe", "analyze"}
                   /\ calls[r] = <<>>
           /\ NormalizerError(r) = "none" => resp[r].status # 400

\* An upload to /v1/analyze whose transcoder run timed out has been answered
\* 400 audio_timeout.
C22_Witness ==
    \E r \in Reqs :
        /\ Answered(r) /\ Uploaded(r) /\ req[r].path = "/v1/analyze"
        /\ NormalizerError(r) = "audio_timeout"
        /\ resp[r].status = 400 /\ DetailErrorType(resp[r]) = "audio_timeout"

\* The chat request the handler of r built, once it has one.
BuiltRequest(r) == local[r].request_body

\* C23: the chat request analyze builds has two messages: a system message
\* whose content is the instruction alone when no prefix is configured and
\* prefix + "\n" + instruction when one is, the instruction standing in it
\* character for character as received (blanks and newlines kept, the empty
\* instruction included); then one user message whose content holds exactly
\* one part, of type input_audio and format wav.  The request is built
\* whenever the normalizer returned.
C23_AnalyzeRequest ==
    \A r \in Reqs :
        (Uploaded(r) /\ req[r].path = "/v1/analyze")
        => /\ (Answered(r) /\ Normalized(r)) => BuiltRequest(r) # JNull
           /\ BuiltRequest(r) # JNull
                => LET messages == BuiltRequest(r).obj["messages"].arr
                       prefix == settings.analyze_system_prompt_prefix
                   IN  /\ DOMAIN BuiltRequest(r).obj = {"messages"}
                       /\ Len(messages) = 2
                       /\ messages[1] =
                            JObj([role |-> JStr("system"),
                                  content |-> JStr(IF prefix = <<>> THEN req[r].instruction
                                                   ELSE prefix \o <<"\n">> \o req[r].instruction)])
                       /\ messages[2].obj["role"] = JStr("user")
                       /\ Len(messages[2].obj["content"].arr) = 1
                       /\ messages[2].obj["content"].arr[1].obj["type"] = JStr("input_audio")
                       /\ messages[2].obj["content"].arr[1].obj["input_audio"].obj["format"]
                            = JStr("wav")

\* With a prefix configured, an instruction with blanks around it has been
\* forwarded.
C23_Witness ==
    \E r \in Reqs :
        /\ Answered(r) /\ req[r].path = "/v1/analyze" /\ Len(calls[r]) = 1
        /\ settings.analyze_system_prompt_prefix = <<"P">>
        /\ req[r].instruction = <<" ", "S", "\n", "s", " ">>
        /\ BuiltRequest(r).obj["messages"].arr[1].obj["content"]
             = JStr(<<"P", "\n", " ", "S", "\n", "s", " ">>)

\* Request r reached the forwarder and its call has ended.
Forwarded(r) == local[r].upstream.kind # "none"

\* C24: a request that reaches the forwarder causes exactly one outbound
\* HTTP call, whether the call succeeds or fails (a failed call is not
\* retried), and a request that does not reach it causes none; identical
\* requests in flight together each cause their own call, to the same URL
\* (none is served from what another obtained).
C24_OneCallPerRequest ==
    /\ \A r \in Reqs :
          /\ Forwarded(r)
               => calls[r] = <<rstrip(local[r].base_url, "/")
                                 \o <<IF req[r].path = "/v1/models" THEN "/v1/models"
                                      ELSE "/v1/chat/completions">> >>
          /\ ~Forwarded(r) => calls[r] = <<>>
          /\ (Answered(r) /\ resp[r].by \in {"chat_completions", "models"}
                /\ ~(resp[r].status \in {400, 500} /\ NonRelayError(r)))
               => Forwarded(r)
    /\ \A r1, r2 \in Reqs :
          (r1 # r2 /\ req[r1] = req[r2] /\ Forwarded(r1) /\ Forwarded(r2))
          => Len(calls[r1]) = 1 /\ calls[r2] = calls[r1]

\* Two identical chat completions have both been answered; the call of one
\* timed out, that of the other returned a response; each made one call.
C24_Witness ==
    \E r1, r2 \in Reqs :
        /\ r1 # r2 /\ Answered(r1) /\ Answered(r2) /\ req[r1] = req[r2]
        /\ req[r1].path = "/v1/chat/completions"
        /\ local[r1].upstream.kind = "timeout" /\ local[r2].upstream.kind = "response"
        /\ Len(calls[r1]) = 1 /\ Len(calls[r2]) = 1

\* C25: across any set of requests, those in flight together included, the
\* X-Request-ID values of the responses are pairwise distinct.
C25_DistinctRequestIDs ==
    \A r1, r2 \in Reqs :
        ( /\ r1 # r2 /\ Answered(r1) /\ Answered(r2)
          /\ ~IsNothing(resp[r1].request_id) /\ ~IsNothing(resp[r2].request_id) )
        => resp[r1].request_id # resp[r2].request_id

\* Request r has been answered with the relay of an upstream response.
Relayed(r) ==
    /\ Answered(r) /\ req[r].path \in RelayPaths /\ local[r].upstream.kind = "response"

\* The body and the headers the upstream sent for request r, the headers as
\* the HTTP client presents them.
UpstreamBody(r) == UpstreamBodies[local[r].upstream.body]
UpstreamItems(r) == httpx_items(UpstreamHeaders(local[r].upstream.status))

\* The Content-Type of a response.
ContentType(response) == HeaderValue(response.headers, "content-type")

\* C26: when chat completions or models relay an upstream response whose
\* body parses as JSON, the relayed body is its re-serialisation and the
\* relayed content type is application/json; otherwise the relayed body is
\* the upstream's raw bytes and the relayed content type is the one the
\* upstream declared.
C26_RelayedBodyAndType ==
    \A r \in Reqs :
        Relayed(r)
        => IF "raw" \notin DOMAIN UpstreamBody(r)
           THEN /\ resp[r].body = UpstreamBody(r)
                /\ ContentType(resp[r]) = <<"application/json">>
           ELSE /\ resp[r].body = UpstreamBody(r)
                /\ "content-type" \in Keys(UpstreamItems(r))
                     => ContentType(resp[r]) = HeaderValue(UpstreamItems(r), "content-type")

\* C27 as stated: a relayed response carries every header of the upstream
\* response except content-length, content-encoding and transfer-encoding
\* (matched case-insensitively), each with its upstream value; those three
\* are never relayed (the Content-Length of the relayed response is the
\* gateway's own).
C27_Original ==
    \A r \in Reqs :
        Relayed(r)
        => /\ \A i \in 1..Len(UpstreamItems(r)) :
                 UpstreamItems(r)[i][1] \notin HopByHop
                 => /\ UpstreamItems(r)[i][1] \in Keys(resp[r].headers)
                    /\ HeaderValue(resp[r].headers, UpstreamItems(r)[i][1])
                         = UpstreamItems(r)[i][2]
           /\ Keys(resp[r].headers) \cap {"content-encoding", "transfer-encoding"} = {}
           /\ HeaderValue(resp[r].headers, "content-length") = BodyLength

\* C27 as amended: a relayed response carries every header of the upstream
\* response except content-length, content-encoding, transfer-encoding and
\* X-Request-ID (all matched case-insensitively), under its lower-case name
\* and with its upstream value, the values of a repeated header joined;
\* content-encoding and transfer-encoding are never relayed, Content-Length
\* is the gateway's own, X-Request-ID carries the ID the gateway generated
\* for the request, and the only other header is Content-Type.
C27_RelayedHeaders ==
    \A r \in Reqs :
        Relayed(r)
        => /\ \A i \in 1..Len(UpstreamItems(r)) :
                 UpstreamItems(r)[i][1] \notin HopByHop \cup {"x-request-id"}
                 => /\ UpstreamItems(r)[i][1] \in Keys(resp[r].headers)
                    /\ HeaderValue(resp[r].headers, UpstreamItems(r)[i][1])
                         = UpstreamItems(r)[i][2]
           /\ Keys(resp[r].headers) \cap {"content-encoding", "transfer-encoding"} = {}
           /\ HeaderValue(resp[r].headers, "content-length") = BodyLength
           /\ "x-request-id" \notin Keys(resp[r].headers)
           /\ ~IsNothing(rid[r]) /\ resp[r].request_id = rid[r]
           /\ Keys(resp[r].headers)
                \subseteq Keys(UpstreamItems(r)) \cup {"content-length", "content-type"}
           /\ \A i, j \in 1..Len(resp[r].headers) :
                 resp[r].headers[i][1] = resp[r].headers[j][1] => i = j

\* The models handler has relayed a response that the upstream sent with a
\* Transfer-Encoding, a Content-Encoding and an X-Request-ID of its own.
C27_Witness ==
    \E r \in Reqs :
        /\ Relayed(r) /\ req[r].path = "/v1/models"
        /\ {"transfer-encoding", "content-encoding", "x-request-id"}
              \subseteq Keys(UpstreamItems(r))
        /\ HeaderValue(resp[r].headers, "content-type") = <<"text/plain">>
        /\ ~IsNothing(resp[r].request_id)

\* Request r is inside the pipeline, not yet answered.
InFlight(r) == pc[r] \in {"middleware", "handler", "ffmpeg", "forward", "return"}

\* A complete response: a status code, a whole body (a JSON document, the
\* bytes the upstream sent, or the server's error text) and the Content-Length
\* of that body.  (The shape of the error bodies is the subject of C7 and
\* C10.)
Complete(response) ==
    /\ response.status \in 200..599
    /\ response.by # "none"
    /\ DOMAIN response.body \in {{"obj"}, {"arr"}, {"str"}, {"num"}, {"bool"}, {"null"}, {"raw"}}
    /\ "content-length" \in Keys(response.headers)
    /\ HeaderValue(response.headers, "content-length") = BodyLength

RoutingInvariant(c) ==
    /\ c.routing_mode \in {"single", "audio_text"}
    /\ c.routing_mode = "audio_text" => c.text_base_url # NoURL /\ c.audio_base_url # NoURL
    /\ c.routing_mode = "single" =>
          \/ c.text_base_url # NoURL
          \/ "default_base_url" \in DOMAIN c /\ c.default_base_url # NoURL

\* A handler of request r has got the Settings object from get_settings.
HasSettings(r) ==
    /\ handler_called[r] /\ req[r].path \in Paths \ {"/health"}
    /\ \/ pc[r] \in {"ffmpeg", "forward"}
       \/ pc[r] \in {"return", "done"} /\ raised[r] # Some("ValueError")

\* The handler of request r was refused the Settings object.
Refused(r) ==
    /\ handler_called[r] /\ req[r].path \in Paths \ {"/health"}
    /\ pc[r] \in {"return", "done"} /\ raised[r] = Some("ValueError")

\* A library operation is running or has run for r.
LibraryCalled(r) == req[r].path = "list_models"

C30_FailFast ==
    \A r \in Reqs :
        handler_called[r] =>
            /\ IsOk(get_settings(settings))
            /\ (KeyConfigured /\ req[r].path # "/health") => ValidBearer(req[r])

\* What upstream selection returns for the request the handler of r holds.
Selected(r) ==
    IF req[r].path = "/v1/models" THEN models_base_url(settings)
    ELSE select_upstream_url(local[r].request_body, settings)

\* The path the forwarder of r's handler calls on the upstream.
UpstreamPath(r) ==
    IF req[r].path = "/v1/models" THEN "/v1/models" ELSE "/v1/chat/completions"

\* The error types of answers given before the forwarder is reached.
EarlyErrorTypes ==
    {"invalid_json", "invalid_request", "audio_too_large", "audio_timeout", "invalid_audio",
     "configuration_error"}

\* C31: within one request the steps happen in a fixed order with early
\* exit: for transcribe and analyze upstream selection happens only after the
\* normalizer returned bytes; for every endpoint the forwarder is called at
\* most once, only after upstream selection returned a base URL, and with
\* exactly that URL; a request answered invalid_json, invalid_request, an
\* audio error or configuration_error caused no upstream call.
C31_PipelineOrder ==
    \A r \in Reqs :
        /\ Len(calls[r]) <= 1
        /\ (pc[r] = "forward" \/ calls[r] # <<>> \/ Forwarded(r)) =>
              /\ local[r].base_url # NoURL
              /\ Selected(r) = Ok(local[r].base_url)
        /\ calls[r] # <<>> => calls[r] = <<url(local[r].base_url, UpstreamPath(r))>>
        /\ (Uploaded(r) /\ (local[r].base_url # NoURL
                             \/ DetailErrorType(resp[r]) = "configuration_error"))
              => Normalized(r)
        /\ (Answered(r) /\ NonRelayError(r) /\ DetailErrorType(resp[r]) \in EarlyErrorTypes)
              => calls[r] = <<>> /\ ~Forwarded(r)

\* An upload went through the transcoder, was routed to the audio upstream
\* and forwarded there.
C31_Witness ==
    \E r \in Reqs :
        /\ Answered(r) /\ settings.routing_mode = "audio_text"
        /\ Uploaded(r) /\ settings.audio_preprocess_enabled
        /\ calls[r] = <<url(settings.audio_base_url, "/v1/chat/completions")>>

\* Request r has left the request-ID layer (or never entered it).
OutsideRequestIDLayer(r) == pc[r] \in {"idle", "done"}

\* C32: when a request has left the request-ID layer, by a normal return or
\* because the handler raised, the request-ID context value is what it was
\* before the request: the default "-".
C32_ContextReset ==
    \A r \in Reqs : OutsideRequestIDLayer(r) => request_id_var[r] = "-"

\* A request whose handler raised has left the layer, after the layer had
\* set the context value.
C32_Witness ==
    \E r \in Reqs :
        /\ Answered(r) /\ ~IsNothing(raised[r]) /\ ~IsNothing(rid[r])
        /\ request_id_var[r] = "-"

\* Request r is inside the request-ID layer.
InsideRequestIDLayer(r) ==
    ~IsNothing(rid[r]) /\ pc[r] \in {"middleware", "handler", "ffmpeg", "forward", "return"}

\* C33: under every interleaving of concurrent requests, the request ID a
\* request observes in its context while it is inside the request-ID layer,
\* and the X-Request-ID of its response, is the ID that was generated for
\* that request, whatever the other requests in flight do meanwhile.
C33_OwnRequestID ==
    \A r \in Reqs :
        /\ InsideRequestIDLayer(r) => request_id_var[r] = rid[r][1]
        /\ (Answered(r) /\ ~IsNothing(rid[r]) /\ IsNothing(raised[r]))
              => resp[r].request_id = rid[r]

\* Two requests are inside the layer together, with different IDs, and one
\* of them awaits its upstream.
C33_Witness ==
    \E r1, r2 \in Reqs :
        /\ r1 # r2 /\ InsideRequestIDLayer(r1) /\ InsideRequestIDLayer(r2)
        /\ rid[r1] # rid[r2]
        /\ pc[r1] = "forward" /\ pc[r2] \in {"handler", "forward"}
        /\ request_id_var[r1] = rid[r1][1] /\ request_id_var[r2] = rid[r2][1]

\* The status and the error type of the answer to request r.
Outcome(r) == <<resp[r].status, DetailErrorType(resp[r])>>

\* The outcome request r has when it is the only request: a function of the
\* request and of how its own transcoder run and its own upstream call ended
\* (the behaviours in which every other slot stays idle are among those
\* checked).
OutcomeAlone(r) ==
    LET up == local[r].upstream
    IN  CASE local[r].transcoder.kind = "timeout" -> <<400, "audio_timeout">>
          [] up.kind = "timeout" -> <<504, "upstream_timeout">>
          [] up.kind = "response" -> <<200, "none">>
          [] OTHER -> <<0, "none">>

\* C34: a timeout of one request's upstream call or transcoder run fails
\* only that request: a request is answered upstream_timeout exactly when
\* its own upstream call timed out and audio_timeout exactly when its own
\* transcoder run did, and every request, whatever happened to the others in
\* flight with it, is answered with the outcome it has alone.
C34_TimeoutFailsOnlyItsRequest ==
    \A r \in Reqs :
        (Answered(r) /\ handler_called[r]) =>
            /\ DetailErrorType(resp[r]) = "upstream_timeout"
                  <=> local[r].upstream.kind = "timeout"
            /\ DetailErrorType(resp[r]) = "audio_timeout"
                  <=> local[r].transcoder.kind = "timeout"
            /\ Outcome(r) = OutcomeAlone(r)

\* The upstream call or the transcoder run of one request timed out, and
\* another request was answered 200 from the response of its upstream.
C34_Witness ==
    \E r1, r2 \in Reqs :
        /\ r1 # r2 /\ Answered(r1)
        /\ \/ local[r1].upstream.kind = "timeout"
           \/ local[r1].transcoder.kind = "timeout"
        /\ Answered(r2) /\ local[r2].upstream.kind = "response" /\ resp[r2].status = 200
        /\ local[r2].transcoder.kind \in {"none", "exit"}

\* C35: whenever /v1/transcribe or /v1/analyze reaches the forwarder in
\* routing mode audio_text, the call goes to audioBaseURL and never to
\* textBaseURL, for every uploaded file and every instruction: the request
\* body these handlers build always holds an input_audio part, which the
\* router detects.
C35_UploadsUseAudioUpstream ==
    \A r \in Reqs :
        (Uploaded(r) /\ settings.routing_mode = "audio_text"
           /\ (pc[r] = "forward" \/ Forwarded(r)))
        => /\ has_audio_content(local[r].request_body.obj["messages"]) = Ok(TRUE)
           /\ local[r].base_url = settings.audio_base_url
           /\ local[r].base_url # settings.text_base_url
           /\ Forwarded(r) => calls[r] = <<url(settings.audio_base_url, "/v1/chat/completions")>>

\* An analyze request with a file that went through the transcoder was
\* forwarded to the audio upstream.
C35_Witness ==
    \E r \in Reqs :
        /\ Answered(r) /\ Uploaded(r) /\ req[r].path = "/v1/analyze"
        /\ settings.routing_mode = "audio_text" /\ Forwarded(r)
        /\ local[r].transcoder.kind = "exit" /\ Len(req[r].file) > 0
        /\ calls[r] = <<url(settings.audio_base_url, "/v1/chat/completions")>>

\* The handler of request r has read a body that is a JSON object whose
\* messages, if present, is a list of objects.
WellShapedChat(r) ==
    /\ req[r].path = "/v1/chat/completions" /\ handler_called[r] /\ req[r].body # 0
    /\ IsOk(json_loads(ChatBodies[req[r].body]))
    /\ IsObj(json_loads(ChatBodies[req[r].body]).ok)
    /\ MessagesAreObjects(json_loads(ChatBodies[req[r].body]).ok)

ObjectChat(r) ==
    /\ req[r].path = "/v1/chat/completions" /\ handler_called[r] /\ req[r].body # 0
    /\ IsOk(json_loads(ChatBodies[req[r].body]))
    /\ IsObj(json_loads(ChatBodies[req[r].body]).ok)

\* C37: select_upstream_url is total on JSON-object request bodies: with no
\* messages key, with messages null or not a list, or with an element of
\* messages that is not an object, it returns a base URL or fails with its
\* configuration error (ValueError) and raises nothing else, so a chat
\* completion whose body parsed to a JSON object is never answered 500
\* internal_error before the forwarder is reached.
C37_RoutingIsTotal ==
    \A r \in Reqs :
        ObjectChat(r) =>
            LET selected == select_upstream_url(json_loads(ChatBodies[req[r].body]).ok, settings)
            IN  /\ IsOk(selected) \/ selected.exc = "ValueError"
                /\ (Answered(r) /\ ~Forwarded(r))
                      => DetailErrorType(resp[r]) # "internal_error"

\* The Settings object with no default URL and the routing mode, the text
\* URL and the audio URL of GatewayConfig c.
SettingsLike(c) ==
    [routing_mode |-> c.routing_mode, text_base_url |-> c.text_base_url,
     audio_base_url |-> c.audio_base_url, default_base_url |-> NoURL]

\* The two results are the same base URL, or the configuration error of
\* either router.
SameSelection(app, core) ==
    IF IsOk(app) \/ IsOk(core) THEN app = core
    ELSE app.exc = "ValueError" /\ core.exc = "ConfigurationError"

\* C38: the router of the HTTP service and the router of the library agree:
\* for the request body and the configuration the library's chat_completion
\* is called with, and the Settings object with no default URL and the same
\* routing mode and URLs, both return the same base URL or both fail with
\* their configuration error.
C38_RoutersAgree ==
    \A r \in Reqs :
        req[r].path = "chat_completion" =>
            SameSelection(select_upstream_url(ChatBodies[req[r].body], SettingsLike(config)),
                          core_select_upstream_url(ChatBodies[req[r].body], config))

\* The upstream body is JSON with a value, of any type, at
\* choices[0].message.content.
HasContent(b) ==
    /\ IsObj(b) /\ "choices" \in DOMAIN b.obj
    /\ IsArr(b.obj["choices"]) /\ Len(b.obj["choices"].arr) > 0
    /\ LET first == b.obj["choices"].arr[1]
       IN  /\ IsObj(first) /\ "message" \in DOMAIN first.obj
           /\ IsObj(first.obj["message"]) /\ "content" \in DOMAIN first.obj["message"].obj

\* The string at choices[0].message.content of upstream body b.
StringContent(b) == b.obj["choices"].arr[1].obj["message"].obj["content"]

\* The upstream answered request r, an upload, with a response.
UploadAnswered(r) ==
    /\ Answered(r) /\ req[r].path \in {"/v1/transcribe", "/v1/analyze"}
    /\ local[r].upstream.kind = "response"

\* The answer to upload r is settled by upstream body b alone.
SettledByBody(r, b) ==
    IF HasStringContent(b)
    THEN /\ resp[r].status = 200
         /\ resp[r].body = JObj([f \in {ResultField(resp[r].by)} |-> StringContent(b)])
    ELSE IF ~HasContent(b)
    THEN resp[r].status = 502 /\ DetailErrorType(resp[r]) = "upstream_invalid_response"
    ELSE resp[r].status = 500 /\ DetailErrorType(resp[r]) = "internal_error"

\* C39: the answer of /v1/transcribe and /v1/analyze does not depend on the
\* upstream's status code: an upstream body that is JSON with a string at
\* choices[0].message.content is answered 200 with that string, also when
\* the upstream's status was 4xx or 5xx; an upstream error response without
\* that path is answered 502 upstream_invalid_response; the upstream's
\* status is never relayed, the answer being settled by the upstream body
\* alone.
C39_StatusIgnored ==
    \A r \in Reqs :
        UploadAnswered(r) =>
            LET b == UpstreamBodies[local[r].upstream.body]
            IN  /\ HasStringContent(b)
                     => /\ resp[r].status = 200
                        /\ resp[r].body.obj[ResultField(resp[r].by)] = StringContent(b)
                /\ (local[r].upstream.status >= 400 /\ ~HasContent(b))
                     => /\ resp[r].status = 502
                        /\ DetailErrorType(resp[r]) = "upstream_invalid_response"
                /\ SettledByBody(r, b)

\* An upstream answer of status 503 with a string at the path was answered
\* 200, and one of status 404 without the path was answered 502.
C39_Witness ==
    \E r \in Reqs :
        /\ UploadAnswered(r)
        /\ local[r].upstream.status = 503
        /\ HasStringContent(UpstreamBodies[local[r].upstream.body])
        /\ resp[r].status = 200

\* What the normalizer gave the handler of upload r: the bytes, or the
\* exception that left it.
NormalizerResult(r) ==
    LET n == normalize_begin(req[r].file, settings)
    IN  IF "spawn" \in DOMAIN n THEN normalize_end(local[r].transcoder) ELSE n

AudioErrorTypes == {"audio_too_large", "audio_timeout", "invalid_audio"}

\* C40: normalize has only these outcomes: it returns bytes, or it fails
\* with an audio processing error of type audio_too_large, audio_timeout or
\* invalid_audio (also when the transcoder cannot be started, and when it
\* exits 0 without having written its output file); a failure of the
\* normalization step of /v1/transcribe and /v1/analyze is therefore
\* answered 400 with one of those three types.
C40_NormalizerOutcomes ==
    \A r \in Reqs :
        (Answered(r) /\ Uploaded(r))
        => LET n == NormalizerResult(r)
           IN  /\ \/ IsOk(n)
                  \/ n.exc = "AudioPreprocessError" /\ n.error_type \in AudioErrorTypes
               /\ ~IsOk(n) => /\ resp[r].status = 400
                              /\ DetailErrorType(resp[r]) \in AudioErrorTypes

====
